---- MODULE Spec2Model ----
(***************************************************************************)
(* Ingestion and imputation pipeline of Lyra (src/lib/data/useIngestion.ts *)
(* and src/lib/data/parser.ts, both held in src/src/lib/data/              *)
(* useIngestion.ts) and the drop marking of its preview modal              *)
(* (CSVPreviewModal, src/unnamed/part_001).                                *)
(*                                                                         *)
(* Representation.                                                         *)
(*  - A JavaScript string is a sequence of one-character strings, so that  *)
(*    trim, toLowerCase and Number are computed character by character:    *)
(*    "NA" is <<"N","A">>, the empty string is <<>>.                       *)
(*  - A cell value of a record is Str(s) or a number: an IEEE-754 double,  *)
(*    [t |-> "num", neg, m, e] for (-1)^neg * m * 2^e, the value NaN, or    *)
(*    Infinity and NegInfinity. Num(n, d) is the double nearest to n/d.     *)
(*  - An optional value (undefined in the source) is None or Some(v).      *)
(*  - A missing-value strategy is a record with a type field: 'zero' is    *)
(*    [type |-> "zero"], {type: 'constant', value} is                      *)
(*    [type |-> "constant", value |-> v].                                  *)
(*  - A text is [empty, eol, rows, errors]: whether it is the empty       *)
(*    string '', the line ends it is written with ("lf" or "crlf"), the    *)
(*    rows the external row splitter (Papa.parse, skipEmptyLines) yields   *)
(*    for it, and whether the splitter reports errors. Two texts with the  *)
(*    same rows and different line ends are different strings.             *)
(***************************************************************************)
EXTENDS Integers, Sequences, FiniteSets, TLC

----------------------------------------------------------------------------
(* Strings                                                                 *)

\* A string is the sequence of its characters. A character that a string of
\* this module can hold stands for itself; any other character is written by
\* its code point, as "U+2028".

\* the letters toLowerCase changes (Unicode 17.0), each above its lower case
UpperChars == <<"A","B","C","D","E","F","G","H","I","J","K","L","M","N","O",
                "P","Q","R","S","T","U","V","W","X","Y","Z","À","Á","Â","Ã",
                "Ä","Å","Æ","Ç","È","É","Ê","Ë","Ì","Í","Î","Ï","Ð","Ñ","Ò",
                "Ó","Ô","Õ","Ö","Ø","Ù","Ú","Û","Ü","Ý","Þ","U+0100","U+0102",
                "U+0104","U+0106","U+0108","U+010A","U+010C","U+010E",
                "U+0110","U+0112","U+0114","U+0116","U+0118","U+011A",
                "U+011C","U+011E","U+0120","U+0122","U+0124","U+0126",
                "U+0128","U+012A","U+012C","U+012E","U+0132","U+0134",
                "U+0136","U+0139","U+013B","U+013D","U+013F","U+0141",
                "U+0143","U+0145","U+0147","U+014A","U+014C","U+014E",
                "U+0150","U+0152","U+0154","U+0156","U+0158","U+015A",
                "U+015C","U+015E","U+0160","U+0162","U+0164","U+0166",
                "U+0168","U+016A","U+016C","U+016E","U+0170","U+0172",
                "U+0174","U+0176","U+0178","U+0179","U+017B","U+017D","Ɓ","Ƃ",
                "Ƅ","Ɔ","Ƈ","Ɖ","Ɗ","Ƌ","Ǝ","Ə","Ɛ","Ƒ","Ɠ","Ɣ","Ɩ","Ɨ","Ƙ",
                "Ɯ","Ɲ","Ɵ","Ơ","Ƣ","Ƥ","Ʀ","Ƨ","Ʃ","Ƭ","Ʈ","Ư","Ʊ","Ʋ","Ƴ",
                "Ƶ","Ʒ","Ƹ","Ƽ","Ǆ","ǅ","Ǉ","ǈ","Ǌ","ǋ","Ǎ","Ǐ","Ǒ","Ǔ","Ǖ",
                "Ǘ","Ǚ","Ǜ","Ǟ","Ǡ","Ǣ","Ǥ","Ǧ","Ǩ","Ǫ","Ǭ","Ǯ","Ǳ","ǲ","Ǵ",
                "Ƕ","Ƿ","Ǹ","Ǻ","Ǽ","Ǿ","U+0200","U+0202","U+0204","U+0206",
                "U+0208","U+020A","U+020C","U+020E","U+0210","U+0212",
                "U+0214","U+0216","U+0218","U+021A","U+021C","U+021E",
                "U+0220","U+0222","U+0224","U+0226","U+0228","U+022A",
                "U+022C","U+022E","U+0230","U+0232","U+023A","U+023B",
                "U+023D","U+023E","U+0241","U+0243","U+0244","U+0245",
                "U+0246","U+0248","U+024A","U+024C","U+024E","U+0370",
                "U+0372","U+0376","U+037F","Ά","Έ","Ή","Ί","Ό","Ύ","Ώ","Α",
                "Β","Γ","Δ","Ε","Ζ","Η","Θ","Ι","Κ","Λ","Μ","Ν","Ξ","Ο","Π",
                "Ρ","Σ","Τ","Υ","Φ","Χ","Ψ","Ω","Ϊ","Ϋ","Ϗ","Ϙ","Ϛ","Ϝ","Ϟ",
                "Ϡ","Ϣ","Ϥ","Ϧ","Ϩ","Ϫ","Ϭ","Ϯ","ϴ","Ϸ","Ϲ","Ϻ","Ͻ","Ͼ","Ͽ",
                "U+0400","U+0401","U+0402","U+0403","U+0404","U+0405",
                "U+0406","U+0407","U+0408","U+0409","U+040A","U+040B",
                "U+040C","U+040D","U+040E","U+040F","U+0410","U+0411",
                "U+0412","U+0413","U+0414","U+0415","U+0416","U+0417",
                "U+0418","U+0419","U+041A","U+041B","U+041C","U+041D",
                "U+041E","U+041F","U+0420","U+0421","U+0422","U+0423",
                "U+0424","U+0425","U+0426","U+0427","U+0428","U+0429",
                "U+042A","U+042B","U+042C","U+042D","U+042E","U+042F",
                "U+0460","U+0462","U+0464","U+0466","U+0468","U+046A",
                "U+046C","U+046E","U+0470","U+0472","U+0474","U+0476",
                "U+0478","U+047A","U+047C","U+047E","Ҁ","Ҋ","Ҍ","Ҏ","Ґ","Ғ",
                "Ҕ","Җ","Ҙ","Қ","Ҝ","Ҟ","Ҡ","Ң","Ҥ","Ҧ","Ҩ","Ҫ","Ҭ","Ү","Ұ",
                "Ҳ","Ҵ","Ҷ","Ҹ","Һ","Ҽ","Ҿ","Ӏ","Ӂ","Ӄ","Ӆ","Ӈ","Ӊ","Ӌ","Ӎ",
                "Ӑ","Ӓ","Ӕ","Ӗ","Ә","Ӛ","Ӝ","Ӟ","Ӡ","Ӣ","Ӥ","Ӧ","Ө","Ӫ","Ӭ",
                "Ӯ","Ӱ","Ӳ","Ӵ","Ӷ","Ӹ","Ӻ","Ӽ","Ӿ","U+0500","U+0502",
                "U+0504","U+0506","U+0508","U+050A","U+050C","U+050E",
                "U+0510","U+0512","U+0514","U+0516","U+0518","U+051A",
                "U+051C","U+051E","U+0520","U+0522","U+0524","U+0526",
                "U+0528","U+052A","U+052C","U+052E","U+0531","U+0532",
                "U+0533","U+0534","U+0535","U+0536","U+0537","U+0538",
                "U+0539","U+053A","U+053B","U+053C","U+053D","U+053E",
                "U+053F","U+0540","U+0541","U+0542","U+0543","U+0544",
                "U+0545","U+0546","U+0547","U+0548","U+0549","U+054A",
                "U+054B","U+054C","U+054D","U+054E","U+054F","U+0550",
                "U+0551","U+0552","U+0553","U+0554","U+0555","U+0556","Ⴀ","Ⴁ",
                "Ⴂ","Ⴃ","Ⴄ","Ⴅ","Ⴆ","Ⴇ","Ⴈ","Ⴉ","Ⴊ","Ⴋ","Ⴌ","Ⴍ","Ⴎ","Ⴏ","Ⴐ",
                "Ⴑ","Ⴒ","Ⴓ","Ⴔ","Ⴕ","Ⴖ","Ⴗ","Ⴘ","Ⴙ","Ⴚ","Ⴛ","Ⴜ","Ⴝ","Ⴞ","Ⴟ",
                "Ⴠ","Ⴡ","Ⴢ","Ⴣ","Ⴤ","Ⴥ","Ⴧ","Ⴭ","Ꭰ","Ꭱ","Ꭲ","Ꭳ","Ꭴ","Ꭵ","Ꭶ",
                "Ꭷ","Ꭸ","Ꭹ","Ꭺ","Ꭻ","Ꭼ","Ꭽ","Ꭾ","Ꭿ","Ꮀ","Ꮁ","Ꮂ","Ꮃ","Ꮄ","Ꮅ",
                "Ꮆ","Ꮇ","Ꮈ","Ꮉ","Ꮊ","Ꮋ","Ꮌ","Ꮍ","Ꮎ","Ꮏ","Ꮐ","Ꮑ","Ꮒ","Ꮓ","Ꮔ",
                "Ꮕ","Ꮖ","Ꮗ","Ꮘ","Ꮙ","Ꮚ","Ꮛ","Ꮜ","Ꮝ","Ꮞ","Ꮟ","Ꮠ","Ꮡ","Ꮢ","Ꮣ",
                "Ꮤ","Ꮥ","Ꮦ","Ꮧ","Ꮨ","Ꮩ","Ꮪ","Ꮫ","Ꮬ","Ꮭ","Ꮮ","Ꮯ","Ꮰ","Ꮱ","Ꮲ",
                "Ꮳ","Ꮴ","Ꮵ","Ꮶ","Ꮷ","Ꮸ","Ꮹ","Ꮺ","Ꮻ","Ꮼ","Ꮽ","Ꮾ","Ꮿ","Ᏸ","Ᏹ",
                "Ᏺ","Ᏻ","Ᏼ","Ᏽ","Ᲊ","Ა","Ბ","Გ","Დ","Ე","Ვ","Ზ","Თ","Ი","Კ",
                "Ლ","Მ","Ნ","Ო","Პ","Ჟ","Რ","Ს","Ტ","Უ","Ფ","Ქ","Ღ","Ყ","Შ",
                "Ჩ","Ც","Ძ","Წ","Ჭ","Ხ","Ჯ","Ჰ","Ჱ","Ჲ","Ჳ","Ჴ","Ჵ","Ჶ","Ჷ",
                "Ჸ","Ჹ","Ჺ","Ჽ","Ჾ","Ჿ","U+1E00","U+1E02","U+1E04","U+1E06",
                "U+1E08","U+1E0A","U+1E0C","U+1E0E","U+1E10","U+1E12",
                "U+1E14","U+1E16","U+1E18","U+1E1A","U+1E1C","U+1E1E",
                "U+1E20","U+1E22","U+1E24","U+1E26","U+1E28","U+1E2A",
                "U+1E2C","U+1E2E","U+1E30","U+1E32","U+1E34","U+1E36",
                "U+1E38","U+1E3A","U+1E3C","U+1E3E","U+1E40","U+1E42",
                "U+1E44","U+1E46","U+1E48","U+1E4A","U+1E4C","U+1E4E",
                "U+1E50","U+1E52","U+1E54","U+1E56","U+1E58","U+1E5A",
                "U+1E5C","U+1E5E","U+1E60","U+1E62","U+1E64","U+1E66",
                "U+1E68","U+1E6A","U+1E6C","U+1E6E","U+1E70","U+1E72",
                "U+1E74","U+1E76","U+1E78","U+1E7A","U+1E7C","U+1E7E","Ẁ","Ẃ",
                "Ẅ","Ẇ","Ẉ","Ẋ","Ẍ","Ẏ","Ẑ","Ẓ","Ẕ","ẞ","Ạ","Ả","Ấ","Ầ","Ẩ",
                "Ẫ","Ậ","Ắ","Ằ","Ẳ","Ẵ","Ặ","Ẹ","Ẻ","Ẽ","Ế","Ề","Ể","Ễ","Ệ",
                "Ỉ","Ị","Ọ","Ỏ","Ố","Ồ","Ổ","Ỗ","Ộ","Ớ","Ờ","Ở","Ỡ","Ợ","Ụ",
                "Ủ","Ứ","Ừ","Ử","Ữ","Ự","Ỳ","Ỵ","Ỷ","Ỹ","Ỻ","Ỽ","Ỿ","U+1F08",
                "U+1F09","U+1F0A","U+1F0B","U+1F0C","U+1F0D","U+1F0E",
                "U+1F0F","U+1F18","U+1F19","U+1F1A","U+1F1B","U+1F1C",
                "U+1F1D","U+1F28","U+1F29","U+1F2A","U+1F2B","U+1F2C",
                "U+1F2D","U+1F2E","U+1F2F","U+1F38","U+1F39","U+1F3A",
                "U+1F3B","U+1F3C","U+1F3D","U+1F3E","U+1F3F","U+1F48",
                "U+1F49","U+1F4A","U+1F4B","U+1F4C","U+1F4D","U+1F59",
                "U+1F5B","U+1F5D","U+1F5F","U+1F68","U+1F69","U+1F6A",
                "U+1F6B","U+1F6C","U+1F6D","U+1F6E","U+1F6F","ᾈ","ᾉ","ᾊ","ᾋ",
                "ᾌ","ᾍ","ᾎ","ᾏ","ᾘ","ᾙ","ᾚ","ᾛ","ᾜ","ᾝ","ᾞ","ᾟ","ᾨ","ᾩ","ᾪ",
                "ᾫ","ᾬ","ᾭ","ᾮ","ᾯ","Ᾰ","Ᾱ","Ὰ","Ά","ᾼ","Ὲ","Έ","Ὴ","Ή","ῌ",
                "Ῐ","Ῑ","Ὶ","Ί","Ῠ","Ῡ","Ὺ","Ύ","Ῥ","Ὸ","Ό","Ὼ","Ώ","ῼ",
                "U+2126","U+212A","U+212B","U+2132","U+2160","U+2161",
                "U+2162","U+2163","U+2164","U+2165","U+2166","U+2167",
                "U+2168","U+2169","U+216A","U+216B","U+216C","U+216D",
                "U+216E","U+216F","Ↄ","Ⓐ","Ⓑ","Ⓒ","Ⓓ","Ⓔ","Ⓕ","Ⓖ","Ⓗ","Ⓘ","Ⓙ",
                "Ⓚ","Ⓛ","Ⓜ","Ⓝ","Ⓞ","Ⓟ","Ⓠ","Ⓡ","Ⓢ","Ⓣ","Ⓤ","Ⓥ","Ⓦ","Ⓧ","Ⓨ",
                "Ⓩ","U+2C00","U+2C01","U+2C02","U+2C03","U+2C04","U+2C05",
                "U+2C06","U+2C07","U+2C08","U+2C09","U+2C0A","U+2C0B",
                "U+2C0C","U+2C0D","U+2C0E","U+2C0F","U+2C10","U+2C11",
                "U+2C12","U+2C13","U+2C14","U+2C15","U+2C16","U+2C17",
                "U+2C18","U+2C19","U+2C1A","U+2C1B","U+2C1C","U+2C1D",
                "U+2C1E","U+2C1F","U+2C20","U+2C21","U+2C22","U+2C23",
                "U+2C24","U+2C25","U+2C26","U+2C27","U+2C28","U+2C29",
                "U+2C2A","U+2C2B","U+2C2C","U+2C2D","U+2C2E","U+2C2F",
                "U+2C60","U+2C62","U+2C63","U+2C64","U+2C67","U+2C69",
                "U+2C6B","U+2C6D","U+2C6E","U+2C6F","U+2C70","U+2C72",
                "U+2C75","U+2C7E","U+2C7F","Ⲁ","Ⲃ","Ⲅ","Ⲇ","Ⲉ","Ⲋ","Ⲍ","Ⲏ",
                "Ⲑ","Ⲓ","Ⲕ","Ⲗ","Ⲙ","Ⲛ","Ⲝ","Ⲟ","Ⲡ","Ⲣ","Ⲥ","Ⲧ","Ⲩ","Ⲫ","Ⲭ",
                "Ⲯ","Ⲱ","Ⲳ","Ⲵ","Ⲷ","Ⲹ","Ⲻ","Ⲽ","Ⲿ","Ⳁ","Ⳃ","Ⳅ","Ⳇ","Ⳉ","Ⳋ",
                "Ⳍ","Ⳏ","Ⳑ","Ⳓ","Ⳕ","Ⳗ","Ⳙ","Ⳛ","Ⳝ","Ⳟ","Ⳡ","Ⳣ","Ⳬ","Ⳮ","Ⳳ",
                "U+A640","U+A642","U+A644","U+A646","U+A648","U+A64A",
                "U+A64C","U+A64E","U+A650","U+A652","U+A654","U+A656",
                "U+A658","U+A65A","U+A65C","U+A65E","U+A660","U+A662",
                "U+A664","U+A666","U+A668","U+A66A","U+A66C","Ꚁ","Ꚃ","Ꚅ","Ꚇ",
                "Ꚉ","Ꚋ","Ꚍ","Ꚏ","Ꚑ","Ꚓ","Ꚕ","Ꚗ","Ꚙ","Ꚛ","U+A722","U+A724",
                "U+A726","U+A728","U+A72A","U+A72C","U+A72E","U+A732",
                "U+A734","U+A736","U+A738","U+A73A","U+A73C","U+A73E",
                "U+A740","U+A742","U+A744","U+A746","U+A748","U+A74A",
                "U+A74C","U+A74E","U+A750","U+A752","U+A754","U+A756",
                "U+A758","U+A75A","U+A75C","U+A75E","U+A760","U+A762",
                "U+A764","U+A766","U+A768","U+A76A","U+A76C","U+A76E",
                "U+A779","U+A77B","U+A77D","U+A77E","Ꞁ","Ꞃ","Ꞅ","Ꞇ","Ꞌ","Ɥ",
                "Ꞑ","Ꞓ","Ꞗ","Ꞙ","Ꞛ","Ꞝ","Ꞟ","Ꞡ","Ꞣ","Ꞥ","Ꞧ","Ꞩ","Ɦ","Ɜ","Ɡ",
                "Ɬ","Ɪ","Ʞ","Ʇ","Ʝ","Ꭓ","Ꞵ","Ꞷ","Ꞹ","Ꞻ","Ꞽ","Ꞿ","Ꟁ","Ꟃ","Ꞔ",
                "Ʂ","Ᶎ","Ꟈ","Ꟊ","Ɤ","Ꟍ","꟎","Ꟑ","꟒","꟔","Ꟗ","Ꟙ","Ꟛ","Ƛ","Ꟶ",
                "U+FF21","U+FF22","U+FF23","U+FF24","U+FF25","U+FF26",
                "U+FF27","U+FF28","U+FF29","U+FF2A","U+FF2B","U+FF2C",
                "U+FF2D","U+FF2E","U+FF2F","U+FF30","U+FF31","U+FF32",
                "U+FF33","U+FF34","U+FF35","U+FF36","U+FF37","U+FF38",
                "U+FF39","U+FF3A","U+10400","U+10401","U+10402","U+10403",
                "U+10404","U+10405","U+10406","U+10407","U+10408","U+10409",
                "U+1040A","U+1040B","U+1040C","U+1040D","U+1040E","U+1040F",
                "U+10410","U+10411","U+10412","U+10413","U+10414","U+10415",
                "U+10416","U+10417","U+10418","U+10419","U+1041A","U+1041B",
                "U+1041C","U+1041D","U+1041E","U+1041F","U+10420","U+10421",
                "U+10422","U+10423","U+10424","U+10425","U+10426","U+10427",
                "U+104B0","U+104B1","U+104B2","U+104B3","U+104B4","U+104B5",
                "U+104B6","U+104B7","U+104B8","U+104B9","U+104BA","U+104BB",
                "U+104BC","U+104BD","U+104BE","U+104BF","U+104C0","U+104C1",
                "U+104C2","U+104C3","U+104C4","U+104C5","U+104C6","U+104C7",
                "U+104C8","U+104C9","U+104CA","U+104CB","U+104CC","U+104CD",
                "U+104CE","U+104CF","U+104D0","U+104D1","U+104D2","U+104D3",
                "U+10570","U+10571","U+10572","U+10573","U+10574","U+10575",
                "U+10576","U+10577","U+10578","U+10579","U+1057A","U+1057C",
                "U+1057D","U+1057E","U+1057F","U+10580","U+10581","U+10582",
                "U+10583","U+10584","U+10585","U+10586","U+10587","U+10588",
                "U+10589","U+1058A","U+1058C","U+1058D","U+1058E","U+1058F",
                "U+10590","U+10591","U+10592","U+10594","U+10595","U+10C80",
                "U+10C81","U+10C82","U+10C83","U+10C84","U+10C85","U+10C86",
                "U+10C87","U+10C88","U+10C89","U+10C8A","U+10C8B","U+10C8C",
                "U+10C8D","U+10C8E","U+10C8F","U+10C90","U+10C91","U+10C92",
                "U+10C93","U+10C94","U+10C95","U+10C96","U+10C97","U+10C98",
                "U+10C99","U+10C9A","U+10C9B","U+10C9C","U+10C9D","U+10C9E",
                "U+10C9F","U+10CA0","U+10CA1","U+10CA2","U+10CA3","U+10CA4",
                "U+10CA5","U+10CA6","U+10CA7","U+10CA8","U+10CA9","U+10CAA",
                "U+10CAB","U+10CAC","U+10CAD","U+10CAE","U+10CAF","U+10CB0",
                "U+10CB1","U+10CB2","U+10D50","U+10D51","U+10D52","U+10D53",
                "U+10D54","U+10D55","U+10D56","U+10D57","U+10D58","U+10D59",
                "U+10D5A","U+10D5B","U+10D5C","U+10D5D","U+10D5E","U+10D5F",
                "U+10D60","U+10D61","U+10D62","U+10D63","U+10D64","U+10D65",
                "U+118A0","U+118A1","U+118A2","U+118A3","U+118A4","U+118A5",
                "U+118A6","U+118A7","U+118A8","U+118A9","U+118AA","U+118AB",
                "U+118AC","U+118AD","U+118AE","U+118AF","U+118B0","U+118B1",
                "U+118B2","U+118B3","U+118B4","U+118B5","U+118B6","U+118B7",
                "U+118B8","U+118B9","U+118BA","U+118BB","U+118BC","U+118BD",
                "U+118BE","U+118BF","U+16E40","U+16E41","U+16E42","U+16E43",
                "U+16E44","U+16E45","U+16E46","U+16E47","U+16E48","U+16E49",
                "U+16E4A","U+16E4B","U+16E4C","U+16E4D","U+16E4E","U+16E4F",
                "U+16E50","U+16E51","U+16E52","U+16E53","U+16E54","U+16E55",
                "U+16E56","U+16E57","U+16E58","U+16E59","U+16E5A","U+16E5B",
                "U+16E5C","U+16E5D","U+16E5E","U+16E5F","U+16EA0","U+16EA1",
                "U+16EA2","U+16EA3","U+16EA4","U+16EA5","U+16EA6","U+16EA7",
                "U+16EA8","U+16EA9","U+16EAA","U+16EAB","U+16EAC","U+16EAD",
                "U+16EAE","U+16EAF","U+16EB0","U+16EB1","U+16EB2","U+16EB3",
                "U+16EB4","U+16EB5","U+16EB6","U+16EB7","U+16EB8","U+1E900",
                "U+1E901","U+1E902","U+1E903","U+1E904","U+1E905","U+1E906",
                "U+1E907","U+1E908","U+1E909","U+1E90A","U+1E90B","U+1E90C",
                "U+1E90D","U+1E90E","U+1E90F","U+1E910","U+1E911","U+1E912",
                "U+1E913","U+1E914","U+1E915","U+1E916","U+1E917","U+1E918",
                "U+1E919","U+1E91A","U+1E91B","U+1E91C","U+1E91D","U+1E91E",
                "U+1E91F","U+1E920","U+1E921">>

LowerChars == <<"a","b","c","d","e","f","g","h","i","j","k","l","m","n","o",
                "p","q","r","s","t","u","v","w","x","y","z","à","á","â","ã",
                "ä","å","æ","ç","è","é","ê","ë","ì","í","î","ï","ð","ñ","ò",
                "ó","ô","õ","ö","ø","ù","ú","û","ü","ý","þ","U+0101","U+0103",
                "U+0105","U+0107","U+0109","U+010B","U+010D","U+010F",
                "U+0111","U+0113","U+0115","U+0117","U+0119","U+011B",
                "U+011D","U+011F","U+0121","U+0123","U+0125","U+0127",
                "U+0129","U+012B","U+012D","U+012F","U+0133","U+0135",
                "U+0137","U+013A","U+013C","U+013E","U+0140","U+0142",
                "U+0144","U+0146","U+0148","U+014B","U+014D","U+014F",
                "U+0151","U+0153","U+0155","U+0157","U+0159","U+015B",
                "U+015D","U+015F","U+0161","U+0163","U+0165","U+0167",
                "U+0169","U+016B","U+016D","U+016F","U+0171","U+0173",
                "U+0175","U+0177","ÿ","U+017A","U+017C","U+017E","U+0253","ƃ",
                "ƅ","U+0254","ƈ","U+0256","U+0257","ƌ","ǝ","U+0259","U+025B",
                "ƒ","U+0260","U+0263","U+0269","U+0268","ƙ","U+026F","U+0272",
                "U+0275","ơ","ƣ","ƥ","ʀ","ƨ","ʃ","ƭ","ʈ","ư","ʊ","ʋ","ƴ","ƶ",
                "ʒ","ƹ","ƽ","ǆ","ǆ","ǉ","ǉ","ǌ","ǌ","ǎ","ǐ","ǒ","ǔ","ǖ","ǘ",
                "ǚ","ǜ","ǟ","ǡ","ǣ","ǥ","ǧ","ǩ","ǫ","ǭ","ǯ","ǳ","ǳ","ǵ","ƕ",
                "ƿ","ǹ","ǻ","ǽ","ǿ","U+0201","U+0203","U+0205","U+0207",
                "U+0209","U+020B","U+020D","U+020F","U+0211","U+0213",
                "U+0215","U+0217","U+0219","U+021B","U+021D","U+021F","ƞ",
                "U+0223","U+0225","U+0227","U+0229","U+022B","U+022D",
                "U+022F","U+0231","U+0233","U+2C65","U+023C","ƚ","U+2C66",
                "U+0242","ƀ","ʉ","ʌ","U+0247","U+0249","U+024B","U+024D",
                "U+024F","U+0371","U+0373","U+0377","ϳ","ά","έ","ή","ί","ό",
                "ύ","ώ","α","β","γ","δ","ε","ζ","η","θ","ι","κ","λ","μ","ν",
                "ξ","ο","π","ρ","σ","τ","υ","φ","χ","ψ","ω","ϊ","ϋ","ϗ","ϙ",
                "ϛ","ϝ","ϟ","ϡ","ϣ","ϥ","ϧ","ϩ","ϫ","ϭ","ϯ","θ","ϸ","ϲ","ϻ",
                "U+037B","U+037C","U+037D","U+0450","U+0451","U+0452",
                "U+0453","U+0454","U+0455","U+0456","U+0457","U+0458",
                "U+0459","U+045A","U+045B","U+045C","U+045D","U+045E",
                "U+045F","U+0430","U+0431","U+0432","U+0433","U+0434",
                "U+0435","U+0436","U+0437","U+0438","U+0439","U+043A",
                "U+043B","U+043C","U+043D","U+043E","U+043F","U+0440",
                "U+0441","U+0442","U+0443","U+0444","U+0445","U+0446",
                "U+0447","U+0448","U+0449","U+044A","U+044B","U+044C",
                "U+044D","U+044E","U+044F","U+0461","U+0463","U+0465",
                "U+0467","U+0469","U+046B","U+046D","U+046F","U+0471",
                "U+0473","U+0475","U+0477","U+0479","U+047B","U+047D",
                "U+047F","ҁ","ҋ","ҍ","ҏ","ґ","ғ","ҕ","җ","ҙ","қ","ҝ","ҟ","ҡ",
                "ң","ҥ","ҧ","ҩ","ҫ","ҭ","ү","ұ","ҳ","ҵ","ҷ","ҹ","һ","ҽ","ҿ",
                "ӏ","ӂ","ӄ","ӆ","ӈ","ӊ","ӌ","ӎ","ӑ","ӓ","ӕ","ӗ","ә","ӛ","ӝ",
                "ӟ","ӡ","ӣ","ӥ","ӧ","ө","ӫ","ӭ","ӯ","ӱ","ӳ","ӵ","ӷ","ӹ","ӻ",
                "ӽ","ӿ","U+0501","U+0503","U+0505","U+0507","U+0509","U+050B",
                "U+050D","U+050F","U+0511","U+0513","U+0515","U+0517",
                "U+0519","U+051B","U+051D","U+051F","U+0521","U+0523",
                "U+0525","U+0527","U+0529","U+052B","U+052D","U+052F",
                "U+0561","U+0562","U+0563","U+0564","U+0565","U+0566",
                "U+0567","U+0568","U+0569","U+056A","U+056B","U+056C",
                "U+056D","U+056E","U+056F","U+0570","U+0571","U+0572",
                "U+0573","U+0574","U+0575","U+0576","U+0577","U+0578",
                "U+0579","U+057A","U+057B","U+057C","U+057D","U+057E",
                "U+057F","ր","ց","ւ","փ","ք","օ","ֆ","U+2D00","U+2D01",
                "U+2D02","U+2D03","U+2D04","U+2D05","U+2D06","U+2D07",
                "U+2D08","U+2D09","U+2D0A","U+2D0B","U+2D0C","U+2D0D",
                "U+2D0E","U+2D0F","U+2D10","U+2D11","U+2D12","U+2D13",
                "U+2D14","U+2D15","U+2D16","U+2D17","U+2D18","U+2D19",
                "U+2D1A","U+2D1B","U+2D1C","U+2D1D","U+2D1E","U+2D1F",
                "U+2D20","U+2D21","U+2D22","U+2D23","U+2D24","U+2D25",
                "U+2D27","U+2D2D","U+AB70","U+AB71","U+AB72","U+AB73",
                "U+AB74","U+AB75","U+AB76","U+AB77","U+AB78","U+AB79",
                "U+AB7A","U+AB7B","U+AB7C","U+AB7D","U+AB7E","U+AB7F","ꮀ","ꮁ",
                "ꮂ","ꮃ","ꮄ","ꮅ","ꮆ","ꮇ","ꮈ","ꮉ","ꮊ","ꮋ","ꮌ","ꮍ","ꮎ","ꮏ","ꮐ",
                "ꮑ","ꮒ","ꮓ","ꮔ","ꮕ","ꮖ","ꮗ","ꮘ","ꮙ","ꮚ","ꮛ","ꮜ","ꮝ","ꮞ","ꮟ",
                "ꮠ","ꮡ","ꮢ","ꮣ","ꮤ","ꮥ","ꮦ","ꮧ","ꮨ","ꮩ","ꮪ","ꮫ","ꮬ","ꮭ","ꮮ",
                "ꮯ","ꮰ","ꮱ","ꮲ","ꮳ","ꮴ","ꮵ","ꮶ","ꮷ","ꮸ","ꮹ","ꮺ","ꮻ","ꮼ","ꮽ",
                "ꮾ","ꮿ","ᏸ","ᏹ","ᏺ","ᏻ","ᏼ","ᏽ","ᲊ","ა","ბ","გ","დ","ე","ვ",
                "ზ","თ","ი","კ","ლ","მ","ნ","ო","პ","ჟ","რ","ს","ტ","უ","ფ",
                "ქ","ღ","ყ","შ","ჩ","ც","ძ","წ","ჭ","ხ","ჯ","ჰ","ჱ","ჲ","ჳ",
                "ჴ","ჵ","ჶ","ჷ","ჸ","ჹ","ჺ","ჽ","ჾ","ჿ","U+1E01","U+1E03",
                "U+1E05","U+1E07","U+1E09","U+1E0B","U+1E0D","U+1E0F",
                "U+1E11","U+1E13","U+1E15","U+1E17","U+1E19","U+1E1B",
                "U+1E1D","U+1E1F","U+1E21","U+1E23","U+1E25","U+1E27",
                "U+1E29","U+1E2B","U+1E2D","U+1E2F","U+1E31","U+1E33",
                "U+1E35","U+1E37","U+1E39","U+1E3B","U+1E3D","U+1E3F",
                "U+1E41","U+1E43","U+1E45","U+1E47","U+1E49","U+1E4B",
                "U+1E4D","U+1E4F","U+1E51","U+1E53","U+1E55","U+1E57",
                "U+1E59","U+1E5B","U+1E5D","U+1E5F","U+1E61","U+1E63",
                "U+1E65","U+1E67","U+1E69","U+1E6B","U+1E6D","U+1E6F",
                "U+1E71","U+1E73","U+1E75","U+1E77","U+1E79","U+1E7B",
                "U+1E7D","U+1E7F","ẁ","ẃ","ẅ","ẇ","ẉ","ẋ","ẍ","ẏ","ẑ","ẓ","ẕ",
                "ß","ạ","ả","ấ","ầ","ẩ","ẫ","ậ","ắ","ằ","ẳ","ẵ","ặ","ẹ","ẻ",
                "ẽ","ế","ề","ể","ễ","ệ","ỉ","ị","ọ","ỏ","ố","ồ","ổ","ỗ","ộ",
                "ớ","ờ","ở","ỡ","ợ","ụ","ủ","ứ","ừ","ử","ữ","ự","ỳ","ỵ","ỷ",
                "ỹ","ỻ","ỽ","ỿ","U+1F00","U+1F01","U+1F02","U+1F03","U+1F04",
                "U+1F05","U+1F06","U+1F07","U+1F10","U+1F11","U+1F12",
                "U+1F13","U+1F14","U+1F15","U+1F20","U+1F21","U+1F22",
                "U+1F23","U+1F24","U+1F25","U+1F26","U+1F27","U+1F30",
                "U+1F31","U+1F32","U+1F33","U+1F34","U+1F35","U+1F36",
                "U+1F37","U+1F40","U+1F41","U+1F42","U+1F43","U+1F44",
                "U+1F45","U+1F51","U+1F53","U+1F55","U+1F57","U+1F60",
                "U+1F61","U+1F62","U+1F63","U+1F64","U+1F65","U+1F66",
                "U+1F67","ᾀ","ᾁ","ᾂ","ᾃ","ᾄ","ᾅ","ᾆ","ᾇ","ᾐ","ᾑ","ᾒ","ᾓ","ᾔ",
                "ᾕ","ᾖ","ᾗ","ᾠ","ᾡ","ᾢ","ᾣ","ᾤ","ᾥ","ᾦ","ᾧ","ᾰ","ᾱ","U+1F70",
                "U+1F71","ᾳ","U+1F72","U+1F73","U+1F74","U+1F75","ῃ","ῐ","ῑ",
                "U+1F76","U+1F77","ῠ","ῡ","U+1F7A","U+1F7B","ῥ","U+1F78",
                "U+1F79","U+1F7C","U+1F7D","ῳ","ω","k","å","U+214E","U+2170",
                "U+2171","U+2172","U+2173","U+2174","U+2175","U+2176",
                "U+2177","U+2178","U+2179","U+217A","U+217B","U+217C",
                "U+217D","U+217E","U+217F","ↄ","ⓐ","ⓑ","ⓒ","ⓓ","ⓔ","ⓕ","ⓖ",
                "ⓗ","ⓘ","ⓙ","ⓚ","ⓛ","ⓜ","ⓝ","ⓞ","ⓟ","ⓠ","ⓡ","ⓢ","ⓣ","ⓤ","ⓥ",
                "ⓦ","ⓧ","ⓨ","ⓩ","U+2C30","U+2C31","U+2C32","U+2C33","U+2C34",
                "U+2C35","U+2C36","U+2C37","U+2C38","U+2C39","U+2C3A",
                "U+2C3B","U+2C3C","U+2C3D","U+2C3E","U+2C3F","U+2C40",
                "U+2C41","U+2C42","U+2C43","U+2C44","U+2C45","U+2C46",
                "U+2C47","U+2C48","U+2C49","U+2C4A","U+2C4B","U+2C4C",
                "U+2C4D","U+2C4E","U+2C4F","U+2C50","U+2C51","U+2C52",
                "U+2C53","U+2C54","U+2C55","U+2C56","U+2C57","U+2C58",
                "U+2C59","U+2C5A","U+2C5B","U+2C5C","U+2C5D","U+2C5E",
                "U+2C5F","U+2C61","U+026B","U+1D7D","U+027D","U+2C68",
                "U+2C6A","U+2C6C","U+0251","U+0271","U+0250","U+0252",
                "U+2C73","U+2C76","U+023F","U+0240","ⲁ","ⲃ","ⲅ","ⲇ","ⲉ","ⲋ",
                "ⲍ","ⲏ","ⲑ","ⲓ","ⲕ","ⲗ","ⲙ","ⲛ","ⲝ","ⲟ","ⲡ","ⲣ","ⲥ","ⲧ","ⲩ",
                "ⲫ","ⲭ","ⲯ","ⲱ","ⲳ","ⲵ","ⲷ","ⲹ","ⲻ","ⲽ","ⲿ","ⳁ","ⳃ","ⳅ","ⳇ",
                "ⳉ","ⳋ","ⳍ","ⳏ","ⳑ","ⳓ","ⳕ","ⳗ","ⳙ","ⳛ","ⳝ","ⳟ","ⳡ","ⳣ","ⳬ",
                "ⳮ","ⳳ","U+A641","U+A643","U+A645","U+A647","U+A649","U+A64B",
                "U+A64D","U+A64F","U+A651","U+A653","U+A655","U+A657",
                "U+A659","U+A65B","U+A65D","U+A65F","U+A661","U+A663",
                "U+A665","U+A667","U+A669","U+A66B","U+A66D","ꚁ","ꚃ","ꚅ","ꚇ",
                "ꚉ","ꚋ","ꚍ","ꚏ","ꚑ","ꚓ","ꚕ","ꚗ","ꚙ","ꚛ","U+A723","U+A725",
                "U+A727","U+A729","U+A72B","U+A72D","U+A72F","U+A733",
                "U+A735","U+A737","U+A739","U+A73B","U+A73D","U+A73F",
                "U+A741","U+A743","U+A745","U+A747","U+A749","U+A74B",
                "U+A74D","U+A74F","U+A751","U+A753","U+A755","U+A757",
                "U+A759","U+A75B","U+A75D","U+A75F","U+A761","U+A763",
                "U+A765","U+A767","U+A769","U+A76B","U+A76D","U+A76F",
                "U+A77A","U+A77C","U+1D79","U+A77F","ꞁ","ꞃ","ꞅ","ꞇ","ꞌ",
                "U+0265","ꞑ","ꞓ","ꞗ","ꞙ","ꞛ","ꞝ","ꞟ","ꞡ","ꞣ","ꞥ","ꞧ","ꞩ",
                "U+0266","U+025C","U+0261","U+026C","U+026A","ʞ","ʇ","ʝ",
                "U+AB53","ꞵ","ꞷ","ꞹ","ꞻ","ꞽ","ꞿ","ꟁ","ꟃ","ꞔ","ʂ","ᶎ","ꟈ","ꟊ",
                "U+0264","ꟍ","꟏","ꟑ","ꟓ","ꟕ","ꟗ","ꟙ","ꟛ","ƛ","ꟶ","U+FF41",
                "U+FF42","U+FF43","U+FF44","U+FF45","U+FF46","U+FF47",
                "U+FF48","U+FF49","U+FF4A","U+FF4B","U+FF4C","U+FF4D",
                "U+FF4E","U+FF4F","U+FF50","U+FF51","U+FF52","U+FF53",
                "U+FF54","U+FF55","U+FF56","U+FF57","U+FF58","U+FF59",
                "U+FF5A","U+10428","U+10429","U+1042A","U+1042B","U+1042C",
                "U+1042D","U+1042E","U+1042F","U+10430","U+10431","U+10432",
                "U+10433","U+10434","U+10435","U+10436","U+10437","U+10438",
                "U+10439","U+1043A","U+1043B","U+1043C","U+1043D","U+1043E",
                "U+1043F","U+10440","U+10441","U+10442","U+10443","U+10444",
                "U+10445","U+10446","U+10447","U+10448","U+10449","U+1044A",
                "U+1044B","U+1044C","U+1044D","U+1044E","U+1044F","U+104D8",
                "U+104D9","U+104DA","U+104DB","U+104DC","U+104DD","U+104DE",
                "U+104DF","U+104E0","U+104E1","U+104E2","U+104E3","U+104E4",
                "U+104E5","U+104E6","U+104E7","U+104E8","U+104E9","U+104EA",
                "U+104EB","U+104EC","U+104ED","U+104EE","U+104EF","U+104F0",
                "U+104F1","U+104F2","U+104F3","U+104F4","U+104F5","U+104F6",
                "U+104F7","U+104F8","U+104F9","U+104FA","U+104FB","U+10597",
                "U+10598","U+10599","U+1059A","U+1059B","U+1059C","U+1059D",
                "U+1059E","U+1059F","U+105A0","U+105A1","U+105A3","U+105A4",
                "U+105A5","U+105A6","U+105A7","U+105A8","U+105A9","U+105AA",
                "U+105AB","U+105AC","U+105AD","U+105AE","U+105AF","U+105B0",
                "U+105B1","U+105B3","U+105B4","U+105B5","U+105B6","U+105B7",
                "U+105B8","U+105B9","U+105BB","U+105BC","U+10CC0","U+10CC1",
                "U+10CC2","U+10CC3","U+10CC4","U+10CC5","U+10CC6","U+10CC7",
                "U+10CC8","U+10CC9","U+10CCA","U+10CCB","U+10CCC","U+10CCD",
                "U+10CCE","U+10CCF","U+10CD0","U+10CD1","U+10CD2","U+10CD3",
                "U+10CD4","U+10CD5","U+10CD6","U+10CD7","U+10CD8","U+10CD9",
                "U+10CDA","U+10CDB","U+10CDC","U+10CDD","U+10CDE","U+10CDF",
                "U+10CE0","U+10CE1","U+10CE2","U+10CE3","U+10CE4","U+10CE5",
                "U+10CE6","U+10CE7","U+10CE8","U+10CE9","U+10CEA","U+10CEB",
                "U+10CEC","U+10CED","U+10CEE","U+10CEF","U+10CF0","U+10CF1",
                "U+10CF2","U+10D70","U+10D71","U+10D72","U+10D73","U+10D74",
                "U+10D75","U+10D76","U+10D77","U+10D78","U+10D79","U+10D7A",
                "U+10D7B","U+10D7C","U+10D7D","U+10D7E","U+10D7F","U+10D80",
                "U+10D81","U+10D82","U+10D83","U+10D84","U+10D85","U+118C0",
                "U+118C1","U+118C2","U+118C3","U+118C4","U+118C5","U+118C6",
                "U+118C7","U+118C8","U+118C9","U+118CA","U+118CB","U+118CC",
                "U+118CD","U+118CE","U+118CF","U+118D0","U+118D1","U+118D2",
                "U+118D3","U+118D4","U+118D5","U+118D6","U+118D7","U+118D8",
                "U+118D9","U+118DA","U+118DB","U+118DC","U+118DD","U+118DE",
                "U+118DF","U+16E60","U+16E61","U+16E62","U+16E63","U+16E64",
                "U+16E65","U+16E66","U+16E67","U+16E68","U+16E69","U+16E6A",
                "U+16E6B","U+16E6C","U+16E6D","U+16E6E","U+16E6F","U+16E70",
                "U+16E71","U+16E72","U+16E73","U+16E74","U+16E75","U+16E76",
                "U+16E77","U+16E78","U+16E79","U+16E7A","U+16E7B","U+16E7C",
                "U+16E7D","U+16E7E","U+16E7F","U+16EBB","U+16EBC","U+16EBD",
                "U+16EBE","U+16EBF","U+16EC0","U+16EC1","U+16EC2","U+16EC3",
                "U+16EC4","U+16EC5","U+16EC6","U+16EC7","U+16EC8","U+16EC9",
                "U+16ECA","U+16ECB","U+16ECC","U+16ECD","U+16ECE","U+16ECF",
                "U+16ED0","U+16ED1","U+16ED2","U+16ED3","U+1E922","U+1E923",
                "U+1E924","U+1E925","U+1E926","U+1E927","U+1E928","U+1E929",
                "U+1E92A","U+1E92B","U+1E92C","U+1E92D","U+1E92E","U+1E92F",
                "U+1E930","U+1E931","U+1E932","U+1E933","U+1E934","U+1E935",
                "U+1E936","U+1E937","U+1E938","U+1E939","U+1E93A","U+1E93B",
                "U+1E93C","U+1E93D","U+1E93E","U+1E93F","U+1E940","U+1E941",
                "U+1E942","U+1E943">>

DigitChars == <<"0","1","2","3","4","5","6","7","8","9">>

\* WhiteSpace and LineTerminator of ECMAScript, which trim removes: TAB, LF,
\* VT, FF, CR, SP, NBSP (U+00A0), U+1680, U+2000 to U+200A, LS (U+2028),
\* PS (U+2029), U+202F, U+205F, U+3000 and ZWNBSP (U+FEFF)
WhiteSpace == {"\t","\n","","\f","\r"," "," "," ","U+2000","U+2001","U+2002",
               "U+2003","U+2004","U+2005","U+2006","U+2007","U+2008","U+2009",
               "U+200A","U+2028","U+2029","U+202F","U+205F","U+3000","﻿"}

UpperSet == {UpperChars[i] : i \in 1..Len(UpperChars)}

\* String.prototype.toLowerCase of the string of the one character c; the
\* lower case of U+0130 is i followed by U+0307
LowerChar(c) ==
  IF c = "U+0130" THEN <<"i", "U+0307">>
  ELSE IF c \in UpperSet
  THEN <<LowerChars[CHOOSE i \in 1..Len(UpperChars) : UpperChars[i] = c]>>
  ELSE <<c>>

\* the characters with the Unicode property Case_Ignorable
CaseIgnorable == {"'",".",":","^","U+0060","¨","­","¯","´","·","¸","ʰ","ʱ",
                  "ʲ","ʳ","ʴ","ʵ","ʶ","ʷ","ʸ","ʹ","ʺ","ʻ","ʼ","ʽ","ʾ","ʿ","ˀ",
                  "ˁ","˂","˃","˄","˅","ˆ","ˇ","ˈ","ˉ","ˊ","ˋ","ˌ","ˍ","ˎ","ˏ",
                  "ː","ˑ","˒","˓","˔","˕","˖","˗","˘","˙","˚","˛","˜","˝","˞",
                  "˟","ˠ","ˡ","ˢ","ˣ","ˤ","˥","˦","˧","˨","˩","˪","˫","ˬ","˭",
                  "ˮ","˯","˰","˱","˲","˳","˴","˵","˶","˷","˸","˹","˺","˻","˼",
                  "˽","˾","˿","U+0300","U+0301","U+0302","U+0303","U+0304",
                  "U+0305","U+0306","U+0307","U+0308","U+0309","U+030A",
                  "U+030B","U+030C","U+030D","U+030E","U+030F","U+0310",
                  "U+0311","U+0312","U+0313","U+0314","U+0315","U+0316",
                  "U+0317","U+0318","U+0319","U+031A","U+031B","U+031C",
                  "U+031D","U+031E","U+031F","U+0320","U+0321","U+0322",
                  "U+0323","U+0324","U+0325","U+0326","U+0327","U+0328",
                  "U+0329","U+032A","U+032B","U+032C","U+032D","U+032E",
                  "U+032F","U+0330","U+0331","U+0332","U+0333","U+0334",
                  "U+0335","U+0336","U+0337","U+0338","U+0339","U+033A",
                  "U+033B","U+033C","U+033D","U+033E","U+033F","U+0340",
                  "U+0341","U+0342","U+0343","U+0344","U+0345","U+0346",
                  "U+0347","U+0348","U+0349","U+034A","U+034B","U+034C",
                  "U+034D","U+034E","U+034F","U+0350","U+0351","U+0352",
                  "U+0353","U+0354","U+0355","U+0356","U+0357","U+0358",
                  "U+0359","U+035A","U+035B","U+035C","U+035D","U+035E",
                  "U+035F","U+0360","U+0361","U+0362","U+0363","U+0364",
                  "U+0365","U+0366","U+0367","U+0368","U+0369","U+036A",
                  "U+036B","U+036C","U+036D","U+036E","U+036F","U+0374",
                  "U+0375","U+037A","΄","΅","·","҃","҄","҅","҆","҇","҈","҉",
                  "U+0559","U+055F","֑","֒","֓","֔","֕","֖","֗","֘","֙","֚",
                  "֛","֜","֝","֞","֟","֠","֡","֢","֣","֤","֥","֦","֧","֨","֩",
                  "֪","֫","֬","֭","֮","֯","ְ","ֱ","ֲ","ֳ","ִ","ֵ","ֶ","ַ","ָ",
                  "ֹ","ֺ","ֻ","ּ","ֽ","ֿ","ׁ","ׂ","ׄ","ׅ","ׇ","״","U+0600",
                  "U+0601","U+0602","U+0603","U+0604","U+0605","U+0610",
                  "U+0611","U+0612","U+0613","U+0614","U+0615","U+0616",
                  "U+0617","U+0618","U+0619","U+061A","U+061C","U+0640",
                  "U+064B","U+064C","U+064D","U+064E","U+064F","U+0650",
                  "U+0651","U+0652","U+0653","U+0654","U+0655","U+0656",
                  "U+0657","U+0658","U+0659","U+065A","U+065B","U+065C",
                  "U+065D","U+065E","U+065F","U+0670","ۖ","ۗ","ۘ","ۙ","ۚ","ۛ",
                  "ۜ","۝","۟","۠","ۡ","ۢ","ۣ","ۤ","ۥ","ۦ","ۧ","ۨ","۪","۫","۬",
                  "ۭ","U+070F","U+0711","U+0730","U+0731","U+0732","U+0733",
                  "U+0734","U+0735","U+0736","U+0737","U+0738","U+0739",
                  "U+073A","U+073B","U+073C","U+073D","U+073E","U+073F",
                  "U+0740","U+0741","U+0742","U+0743","U+0744","U+0745",
                  "U+0746","U+0747","U+0748","U+0749","U+074A","ަ","ާ","ި",
                  "ީ","ު","ޫ","ެ","ޭ","ޮ","ޯ","ް","߫","߬","߭","߮","߯","߰","߱",
                  "߲","߳","ߴ","ߵ","ߺ","߽","U+0816","U+0817","U+0818","U+0819",
                  "U+081A","U+081B","U+081C","U+081D","U+081E","U+081F",
                  "U+0820","U+0821","U+0822","U+0823","U+0824","U+0825",
                  "U+0826","U+0827","U+0828","U+0829","U+082A","U+082B",
                  "U+082C","U+082D","U+0859","U+085A","U+085B","࢈","࢐","࢑",
                  "ࢗ","࢘","࢙","࢚","࢛","࢜","࢝","࢞","࢟","ࣉ","࣊","࣋","࣌","࣍","࣎",
                  "࣏","࣐","࣑","࣒","࣓","ࣔ","ࣕ","ࣖ","ࣗ","ࣘ","ࣙ","ࣚ","ࣛ","ࣜ","ࣝ",
                  "ࣞ","ࣟ","࣠","࣡","࣢","ࣣ","ࣤ","ࣥ","ࣦ","ࣧ","ࣨ","ࣩ","࣪","࣫","࣬",
                  "࣭","࣮","࣯","ࣰ","ࣱ","ࣲ","ࣳ","ࣴ","ࣵ","ࣶ","ࣷ","ࣸ","ࣹ","ࣺ","ࣻ",
                  "ࣼ","ࣽ","ࣾ","ࣿ","U+0900","U+0901","U+0902","U+093A",
                  "U+093C","U+0941","U+0942","U+0943","U+0944","U+0945",
                  "U+0946","U+0947","U+0948","U+094D","U+0951","U+0952",
                  "U+0953","U+0954","U+0955","U+0956","U+0957","U+0962",
                  "U+0963","U+0971","ঁ","়","ু","ূ","ৃ","ৄ","্","ৢ","ৣ","৾",
                  "U+0A01","U+0A02","U+0A3C","U+0A41","U+0A42","U+0A47",
                  "U+0A48","U+0A4B","U+0A4C","U+0A4D","U+0A51","U+0A70",
                  "U+0A71","U+0A75","ઁ","ં","઼","ુ","ૂ","ૃ","ૄ","ૅ","ે","ૈ",
                  "્","ૢ","ૣ","ૺ","ૻ","ૼ","૽","૾","૿","U+0B01","U+0B3C",
                  "U+0B3F","U+0B41","U+0B42","U+0B43","U+0B44","U+0B4D",
                  "U+0B55","U+0B56","U+0B62","U+0B63","ஂ","ீ","்","U+0C00",
                  "U+0C04","U+0C3C","U+0C3E","U+0C3F","U+0C40","U+0C46",
                  "U+0C47","U+0C48","U+0C4A","U+0C4B","U+0C4C","U+0C4D",
                  "U+0C55","U+0C56","U+0C62","U+0C63","ಁ","಼","ಿ","ೆ","ೌ","್",
                  "ೢ","ೣ","U+0D00","U+0D01","U+0D3B","U+0D3C","U+0D41",
                  "U+0D42","U+0D43","U+0D44","U+0D4D","U+0D62","U+0D63","ඁ",
                  "්","ි","ී","ු","ූ","U+0E31","U+0E34","U+0E35","U+0E36",
                  "U+0E37","U+0E38","U+0E39","U+0E3A","U+0E46","U+0E47",
                  "U+0E48","U+0E49","U+0E4A","U+0E4B","U+0E4C","U+0E4D",
                  "U+0E4E","ັ","ິ","ີ","ຶ","ື","ຸ","ູ","຺","ົ","ຼ","ໆ","່",
                  "້","໊","໋","໌","ໍ","໎","U+0F18","U+0F19","U+0F35","U+0F37",
                  "U+0F39","U+0F71","U+0F72","U+0F73","U+0F74","U+0F75",
                  "U+0F76","U+0F77","U+0F78","U+0F79","U+0F7A","U+0F7B",
                  "U+0F7C","U+0F7D","U+0F7E","ྀ","ཱྀ","ྂ","ྃ","྄","྆","྇","ྍ",
                  "ྎ","ྏ","ྐ","ྑ","ྒ","ྒྷ","ྔ","ྕ","ྖ","ྗ","ྙ","ྚ","ྛ","ྜ","ྜྷ",
                  "ྞ","ྟ","ྠ","ྡ","ྡྷ","ྣ","ྤ","ྥ","ྦ","ྦྷ","ྨ","ྩ","ྪ","ྫ","ྫྷ",
                  "ྭ","ྮ","ྯ","ྰ","ྱ","ྲ","ླ","ྴ","ྵ","ྶ","ྷ","ྸ","ྐྵ","ྺ","ྻ",
                  "ྼ","࿆","U+102D","U+102E","U+102F","U+1030","U+1032",
                  "U+1033","U+1034","U+1035","U+1036","U+1037","U+1039",
                  "U+103A","U+103D","U+103E","U+1058","U+1059","U+105E",
                  "U+105F","U+1060","U+1071","U+1072","U+1073","U+1074","ႂ",
                  "ႅ","ႆ","ႍ","ႝ","ჼ","U+135D","U+135E","U+135F","U+1712",
                  "U+1713","U+1714","U+1732","U+1733","U+1752","U+1753",
                  "U+1772","U+1773","឴","឵","ិ","ី","ឹ","ឺ","ុ","ូ","ួ","ំ",
                  "៉","៊","់","៌","៍","៎","៏","័","៑","្","៓","ៗ","៝",
                  "U+180B","U+180C","U+180D","U+180E","U+180F","U+1843","ᢅ",
                  "ᢆ","ᢩ","U+1920","U+1921","U+1922","U+1927","U+1928",
                  "U+1932","U+1939","U+193A","U+193B","U+1A17","U+1A18",
                  "U+1A1B","U+1A56","U+1A58","U+1A59","U+1A5A","U+1A5B",
                  "U+1A5C","U+1A5D","U+1A5E","U+1A60","U+1A62","U+1A65",
                  "U+1A66","U+1A67","U+1A68","U+1A69","U+1A6A","U+1A6B",
                  "U+1A6C","U+1A73","U+1A74","U+1A75","U+1A76","U+1A77",
                  "U+1A78","U+1A79","U+1A7A","U+1A7B","U+1A7C","U+1A7F","ᪧ",
                  "᪰","᪱","᪲","᪳","᪴","᪵","᪶","᪷","᪸","᪹","᪺","᪻","᪼","᪽","᪾",
                  "ᪿ","ᫀ","᫁","᫂","᫃","᫄","᫅","᫆","᫇","᫈","᫉","᫊","᫋","ᫌ","ᫍ",
                  "ᫎ","᫏","᫐","᫑","᫒","᫓","᫔","᫕","᫖","᫗","᫘","᫙","᫚","᫛","᫜",
                  "᫝","᫠","᫡","᫢","᫣","᫤","᫥","᫦","᫧","᫨","᫩","᫪","᫫",
                  "U+1B00","U+1B01","U+1B02","U+1B03","U+1B34","U+1B36",
                  "U+1B37","U+1B38","U+1B39","U+1B3A","U+1B3C","U+1B42",
                  "U+1B6B","U+1B6C","U+1B6D","U+1B6E","U+1B6F","U+1B70",
                  "U+1B71","U+1B72","U+1B73","ᮀ","ᮁ","ᮢ","ᮣ","ᮤ","ᮥ","ᮨ","ᮩ",
                  "᮫","ᮬ","ᮭ","᯦","ᯨ","ᯩ","ᯭ","ᯯ","ᯰ","ᯱ","U+1C2C","U+1C2D",
                  "U+1C2E","U+1C2F","U+1C30","U+1C31","U+1C32","U+1C33",
                  "U+1C36","U+1C37","U+1C78","U+1C79","U+1C7A","U+1C7B",
                  "U+1C7C","U+1C7D","᳐","᳑","᳒","᳔","᳕","᳖","᳗","᳘","᳙","᳚",
                  "᳛","᳜","᳝","᳞","᳟","᳠","᳢","᳣","᳤","᳥","᳦","᳧","᳨","᳭","᳴",
                  "᳸","᳹","U+1D2C","U+1D2D","U+1D2E","U+1D2F","U+1D30",
                  "U+1D31","U+1D32","U+1D33","U+1D34","U+1D35","U+1D36",
                  "U+1D37","U+1D38","U+1D39","U+1D3A","U+1D3B","U+1D3C",
                  "U+1D3D","U+1D3E","U+1D3F","U+1D40","U+1D41","U+1D42",
                  "U+1D43","U+1D44","U+1D45","U+1D46","U+1D47","U+1D48",
                  "U+1D49","U+1D4A","U+1D4B","U+1D4C","U+1D4D","U+1D4E",
                  "U+1D4F","U+1D50","U+1D51","U+1D52","U+1D53","U+1D54",
                  "U+1D55","U+1D56","U+1D57","U+1D58","U+1D59","U+1D5A",
                  "U+1D5B","U+1D5C","U+1D5D","U+1D5E","U+1D5F","U+1D60",
                  "U+1D61","U+1D62","U+1D63","U+1D64","U+1D65","U+1D66",
                  "U+1D67","U+1D68","U+1D69","U+1D6A","U+1D78","ᶛ","ᶜ","ᶝ",
                  "ᶞ","ᶟ","ᶠ","ᶡ","ᶢ","ᶣ","ᶤ","ᶥ","ᶦ","ᶧ","ᶨ","ᶩ","ᶪ","ᶫ","ᶬ",
                  "ᶭ","ᶮ","ᶯ","ᶰ","ᶱ","ᶲ","ᶳ","ᶴ","ᶵ","ᶶ","ᶷ","ᶸ","ᶹ","ᶺ","ᶻ",
                  "ᶼ","ᶽ","ᶾ","ᶿ","᷀","᷁","᷂","᷃","᷄","᷅","᷆","᷇","᷈","᷉","᷊",
                  "᷋","᷌","᷍","᷎","᷏","᷐","᷑","᷒","ᷓ","ᷔ","ᷕ","ᷖ","ᷗ","ᷘ","ᷙ",
                  "ᷚ","ᷛ","ᷜ","ᷝ","ᷞ","ᷟ","ᷠ","ᷡ","ᷢ","ᷣ","ᷤ","ᷥ","ᷦ","ᷧ","ᷨ",
                  "ᷩ","ᷪ","ᷫ","ᷬ","ᷭ","ᷮ","ᷯ","ᷰ","ᷱ","ᷲ","ᷳ","ᷴ","᷵","᷶","᷷",
                  "᷸","᷹","᷺","᷻","᷼","᷽","᷾","᷿","᾽","᾿","῀","῁","῍","῎","῏",
                  "῝","῞","῟","῭","΅","`","´","῾","U+200B","U+200C","U+200D",
                  "U+200E","U+200F","U+2018","U+2019","U+2024","U+2027",
                  "U+202A","U+202B","U+202C","U+202D","U+202E","U+2060",
                  "U+2061","U+2062","U+2063","U+2064","U+2066","U+2067",
                  "U+2068","U+2069","U+206A","U+206B","U+206C","U+206D",
                  "U+206E","U+206F","U+2071","U+207F","ₐ","ₑ","ₒ","ₓ","ₔ","ₕ",
                  "ₖ","ₗ","ₘ","ₙ","ₚ","ₛ","ₜ","⃐","⃑","⃒","⃓","⃔","⃕","⃖","⃗",
                  "⃘","⃙","⃚","⃛","⃜","⃝","⃞","⃟","⃠","⃡","⃢","⃣","⃤","⃥","⃦",
                  "⃧","⃨","⃩","⃪","⃫","⃬","⃭","⃮","⃯","⃰","U+2C7C","U+2C7D",
                  "⳯","⳰","⳱","U+2D6F","U+2D7F","ⷠ","ⷡ","ⷢ","ⷣ","ⷤ","ⷥ","ⷦ",
                  "ⷧ","ⷨ","ⷩ","ⷪ","ⷫ","ⷬ","ⷭ","ⷮ","ⷯ","ⷰ","ⷱ","ⷲ","ⷳ","ⷴ","ⷵ",
                  "ⷶ","ⷷ","ⷸ","ⷹ","ⷺ","ⷻ","ⷼ","ⷽ","ⷾ","ⷿ","U+2E2F","U+3005",
                  "U+302A","U+302B","U+302C","U+302D","U+3031","U+3032",
                  "U+3033","U+3034","U+3035","U+303B","゙","゚","゛","゜","ゝ","ゞ",
                  "ー","ヽ","ヾ","U+A015","ꓸ","ꓹ","ꓺ","ꓻ","ꓼ","ꓽ","U+A60C",
                  "U+A66F","U+A670","U+A671","U+A672","U+A674","U+A675",
                  "U+A676","U+A677","U+A678","U+A679","U+A67A","U+A67B",
                  "U+A67C","U+A67D","U+A67F","ꚜ","ꚝ","ꚞ","ꚟ","꛰","꛱","U+A700",
                  "U+A701","U+A702","U+A703","U+A704","U+A705","U+A706",
                  "U+A707","U+A708","U+A709","U+A70A","U+A70B","U+A70C",
                  "U+A70D","U+A70E","U+A70F","U+A710","U+A711","U+A712",
                  "U+A713","U+A714","U+A715","U+A716","U+A717","U+A718",
                  "U+A719","U+A71A","U+A71B","U+A71C","U+A71D","U+A71E",
                  "U+A71F","U+A720","U+A721","U+A770","ꞈ","꞉","꞊","꟱","ꟲ","ꟳ",
                  "ꟴ","ꟸ","ꟹ","U+A802","U+A806","U+A80B","U+A825","U+A826",
                  "U+A82C","꣄","ꣅ","꣠","꣡","꣢","꣣","꣤","꣥","꣦","꣧","꣨","꣩",
                  "꣪","꣫","꣬","꣭","꣮","꣯","꣰","꣱","ꣿ","U+A926","U+A927",
                  "U+A928","U+A929","U+A92A","U+A92B","U+A92C","U+A92D",
                  "U+A947","U+A948","U+A949","U+A94A","U+A94B","U+A94C",
                  "U+A94D","U+A94E","U+A94F","U+A950","U+A951","ꦀ","ꦁ","ꦂ",
                  "꦳","ꦶ","ꦷ","ꦸ","ꦹ","ꦼ","ꦽ","ꧏ","ꧥ","ꧦ","U+AA29","U+AA2A",
                  "U+AA2B","U+AA2C","U+AA2D","U+AA2E","U+AA31","U+AA32",
                  "U+AA35","U+AA36","U+AA43","U+AA4C","U+AA70","U+AA7C","ꪰ",
                  "ꪲ","ꪳ","ꪴ","ꪷ","ꪸ","ꪾ","꪿","꫁","ꫝ","ꫬ","ꫭ","ꫳ","ꫴ","꫶",
                  "U+AB5B","U+AB5C","U+AB5D","U+AB5E","U+AB5F","U+AB69",
                  "U+AB6A","U+AB6B","ꯥ","ꯨ","꯭","U+FB1E","﮲","﮳","﮴","﮵","﮶",
                  "﮷","﮸","﮹","﮺","﮻","﮼","﮽","﮾","﮿","﯀","﯁","﯂","U+FE00",
                  "U+FE01","U+FE02","U+FE03","U+FE04","U+FE05","U+FE06",
                  "U+FE07","U+FE08","U+FE09","U+FE0A","U+FE0B","U+FE0C",
                  "U+FE0D","U+FE0E","U+FE0F","U+FE13","U+FE20","U+FE21",
                  "U+FE22","U+FE23","U+FE24","U+FE25","U+FE26","U+FE27",
                  "U+FE28","U+FE29","U+FE2A","U+FE2B","U+FE2C","U+FE2D",
                  "U+FE2E","U+FE2F","U+FE52","U+FE55","﻿","U+FF07","U+FF0E",
                  "U+FF1A","U+FF3E","U+FF40","U+FF70","ﾞ","ﾟ","￣","￹","￺","￻",
                  "U+101FD","U+102E0","U+10376","U+10377","U+10378","U+10379",
                  "U+1037A","U+10780","U+10781","U+10782","U+10783","U+10784",
                  "U+10785","U+10787","U+10788","U+10789","U+1078A","U+1078B",
                  "U+1078C","U+1078D","U+1078E","U+1078F","U+10790","U+10791",
                  "U+10792","U+10793","U+10794","U+10795","U+10796","U+10797",
                  "U+10798","U+10799","U+1079A","U+1079B","U+1079C","U+1079D",
                  "U+1079E","U+1079F","U+107A0","U+107A1","U+107A2","U+107A3",
                  "U+107A4","U+107A5","U+107A6","U+107A7","U+107A8","U+107A9",
                  "U+107AA","U+107AB","U+107AC","U+107AD","U+107AE","U+107AF",
                  "U+107B0","U+107B2","U+107B3","U+107B4","U+107B5","U+107B6",
                  "U+107B7","U+107B8","U+107B9","U+107BA","U+10A01","U+10A02",
                  "U+10A03","U+10A05","U+10A06","U+10A0C","U+10A0D","U+10A0E",
                  "U+10A0F","U+10A38","U+10A39","U+10A3A","U+10A3F","U+10AE5",
                  "U+10AE6","U+10D24","U+10D25","U+10D26","U+10D27","U+10D4E",
                  "U+10D69","U+10D6A","U+10D6B","U+10D6C","U+10D6D","U+10D6F",
                  "U+10EAB","U+10EAC","U+10EC5","U+10EFA","U+10EFB","U+10EFC",
                  "U+10EFD","U+10EFE","U+10EFF","U+10F46","U+10F47","U+10F48",
                  "U+10F49","U+10F4A","U+10F4B","U+10F4C","U+10F4D","U+10F4E",
                  "U+10F4F","U+10F50","U+10F82","U+10F83","U+10F84","U+10F85",
                  "U+11001","U+11038","U+11039","U+1103A","U+1103B","U+1103C",
                  "U+1103D","U+1103E","U+1103F","U+11040","U+11041","U+11042",
                  "U+11043","U+11044","U+11045","U+11046","U+11070","U+11073",
                  "U+11074","U+1107F","U+11080","U+11081","U+110B3","U+110B4",
                  "U+110B5","U+110B6","U+110B9","U+110BA","U+110BD","U+110C2",
                  "U+110CD","U+11100","U+11101","U+11102","U+11127","U+11128",
                  "U+11129","U+1112A","U+1112B","U+1112D","U+1112E","U+1112F",
                  "U+11130","U+11131","U+11132","U+11133","U+11134","U+11173",
                  "U+11180","U+11181","U+111B6","U+111B7","U+111B8","U+111B9",
                  "U+111BA","U+111BB","U+111BC","U+111BD","U+111BE","U+111C9",
                  "U+111CA","U+111CB","U+111CC","U+111CF","U+1122F","U+11230",
                  "U+11231","U+11234","U+11236","U+11237","U+1123E","U+11241",
                  "U+112DF","U+112E3","U+112E4","U+112E5","U+112E6","U+112E7",
                  "U+112E8","U+112E9","U+112EA","U+11300","U+11301","U+1133B",
                  "U+1133C","U+11340","U+11366","U+11367","U+11368","U+11369",
                  "U+1136A","U+1136B","U+1136C","U+11370","U+11371","U+11372",
                  "U+11373","U+11374","U+113BB","U+113BC","U+113BD","U+113BE",
                  "U+113BF","U+113C0","U+113CE","U+113D0","U+113D2","U+113E1",
                  "U+113E2","U+11438","U+11439","U+1143A","U+1143B","U+1143C",
                  "U+1143D","U+1143E","U+1143F","U+11442","U+11443","U+11444",
                  "U+11446","U+1145E","U+114B3","U+114B4","U+114B5","U+114B6",
                  "U+114B7","U+114B8","U+114BA","U+114BF","U+114C0","U+114C2",
                  "U+114C3","U+115B2","U+115B3","U+115B4","U+115B5","U+115BC",
                  "U+115BD","U+115BF","U+115C0","U+115DC","U+115DD","U+11633",
                  "U+11634","U+11635","U+11636","U+11637","U+11638","U+11639",
                  "U+1163A","U+1163D","U+1163F","U+11640","U+116AB","U+116AD",
                  "U+116B0","U+116B1","U+116B2","U+116B3","U+116B4","U+116B5",
                  "U+116B7","U+1171D","U+1171F","U+11722","U+11723","U+11724",
                  "U+11725","U+11727","U+11728","U+11729","U+1172A","U+1172B",
                  "U+1182F","U+11830","U+11831","U+11832","U+11833","U+11834",
                  "U+11835","U+11836","U+11837","U+11839","U+1183A","U+1193B",
                  "U+1193C","U+1193E","U+11943","U+119D4","U+119D5","U+119D6",
                  "U+119D7","U+119DA","U+119DB","U+119E0","U+11A01","U+11A02",
                  "U+11A03","U+11A04","U+11A05","U+11A06","U+11A07","U+11A08",
                  "U+11A09","U+11A0A","U+11A33","U+11A34","U+11A35","U+11A36",
                  "U+11A37","U+11A38","U+11A3B","U+11A3C","U+11A3D","U+11A3E",
                  "U+11A47","U+11A51","U+11A52","U+11A53","U+11A54","U+11A55",
                  "U+11A56","U+11A59","U+11A5A","U+11A5B","U+11A8A","U+11A8B",
                  "U+11A8C","U+11A8D","U+11A8E","U+11A8F","U+11A90","U+11A91",
                  "U+11A92","U+11A93","U+11A94","U+11A95","U+11A96","U+11A98",
                  "U+11A99","U+11B60","U+11B62","U+11B63","U+11B64","U+11B66",
                  "U+11C30","U+11C31","U+11C32","U+11C33","U+11C34","U+11C35",
                  "U+11C36","U+11C38","U+11C39","U+11C3A","U+11C3B","U+11C3C",
                  "U+11C3D","U+11C3F","U+11C92","U+11C93","U+11C94","U+11C95",
                  "U+11C96","U+11C97","U+11C98","U+11C99","U+11C9A","U+11C9B",
                  "U+11C9C","U+11C9D","U+11C9E","U+11C9F","U+11CA0","U+11CA1",
                  "U+11CA2","U+11CA3","U+11CA4","U+11CA5","U+11CA6","U+11CA7",
                  "U+11CAA","U+11CAB","U+11CAC","U+11CAD","U+11CAE","U+11CAF",
                  "U+11CB0","U+11CB2","U+11CB3","U+11CB5","U+11CB6","U+11D31",
                  "U+11D32","U+11D33","U+11D34","U+11D35","U+11D36","U+11D3A",
                  "U+11D3C","U+11D3D","U+11D3F","U+11D40","U+11D41","U+11D42",
                  "U+11D43","U+11D44","U+11D45","U+11D47","U+11D90","U+11D91",
                  "U+11D95","U+11D97","U+11DD9","U+11EF3","U+11EF4","U+11F00",
                  "U+11F01","U+11F36","U+11F37","U+11F38","U+11F39","U+11F3A",
                  "U+11F40","U+11F42","U+11F5A","U+13430","U+13431","U+13432",
                  "U+13433","U+13434","U+13435","U+13436","U+13437","U+13438",
                  "U+13439","U+1343A","U+1343B","U+1343C","U+1343D","U+1343E",
                  "U+1343F","U+13440","U+13447","U+13448","U+13449","U+1344A",
                  "U+1344B","U+1344C","U+1344D","U+1344E","U+1344F","U+13450",
                  "U+13451","U+13452","U+13453","U+13454","U+13455","U+1611E",
                  "U+1611F","U+16120","U+16121","U+16122","U+16123","U+16124",
                  "U+16125","U+16126","U+16127","U+16128","U+16129","U+1612D",
                  "U+1612E","U+1612F","U+16AF0","U+16AF1","U+16AF2","U+16AF3",
                  "U+16AF4","U+16B30","U+16B31","U+16B32","U+16B33","U+16B34",
                  "U+16B35","U+16B36","U+16B40","U+16B41","U+16B42","U+16B43",
                  "U+16D40","U+16D41","U+16D42","U+16D6B","U+16D6C","U+16F4F",
                  "U+16F8F","U+16F90","U+16F91","U+16F92","U+16F93","U+16F94",
                  "U+16F95","U+16F96","U+16F97","U+16F98","U+16F99","U+16F9A",
                  "U+16F9B","U+16F9C","U+16F9D","U+16F9E","U+16F9F","U+16FE0",
                  "U+16FE1","U+16FE3","U+16FE4","U+16FF2","U+16FF3","U+1AFF0",
                  "U+1AFF1","U+1AFF2","U+1AFF3","U+1AFF5","U+1AFF6","U+1AFF7",
                  "U+1AFF8","U+1AFF9","U+1AFFA","U+1AFFB","U+1AFFD","U+1AFFE",
                  "U+1BC9D","U+1BC9E","U+1BCA0","U+1BCA1","U+1BCA2","U+1BCA3",
                  "U+1CF00","U+1CF01","U+1CF02","U+1CF03","U+1CF04","U+1CF05",
                  "U+1CF06","U+1CF07","U+1CF08","U+1CF09","U+1CF0A","U+1CF0B",
                  "U+1CF0C","U+1CF0D","U+1CF0E","U+1CF0F","U+1CF10","U+1CF11",
                  "U+1CF12","U+1CF13","U+1CF14","U+1CF15","U+1CF16","U+1CF17",
                  "U+1CF18","U+1CF19","U+1CF1A","U+1CF1B","U+1CF1C","U+1CF1D",
                  "U+1CF1E","U+1CF1F","U+1CF20","U+1CF21","U+1CF22","U+1CF23",
                  "U+1CF24","U+1CF25","U+1CF26","U+1CF27","U+1CF28","U+1CF29",
                  "U+1CF2A","U+1CF2B","U+1CF2C","U+1CF2D","U+1CF30","U+1CF31",
                  "U+1CF32","U+1CF33","U+1CF34","U+1CF35","U+1CF36","U+1CF37",
                  "U+1CF38","U+1CF39","U+1CF3A","U+1CF3B","U+1CF3C","U+1CF3D",
                  "U+1CF3E","U+1CF3F","U+1CF40","U+1CF41","U+1CF42","U+1CF43",
                  "U+1CF44","U+1CF45","U+1CF46","U+1D167","U+1D168","U+1D169",
                  "U+1D173","U+1D174","U+1D175","U+1D176","U+1D177","U+1D178",
                  "U+1D179","U+1D17A","U+1D17B","U+1D17C","U+1D17D","U+1D17E",
                  "U+1D17F","U+1D180","U+1D181","U+1D182","U+1D185","U+1D186",
                  "U+1D187","U+1D188","U+1D189","U+1D18A","U+1D18B","U+1D1AA",
                  "U+1D1AB","U+1D1AC","U+1D1AD","U+1D242","U+1D243","U+1D244",
                  "U+1DA00","U+1DA01","U+1DA02","U+1DA03","U+1DA04","U+1DA05",
                  "U+1DA06","U+1DA07","U+1DA08","U+1DA09","U+1DA0A","U+1DA0B",
                  "U+1DA0C","U+1DA0D","U+1DA0E","U+1DA0F","U+1DA10","U+1DA11",
                  "U+1DA12","U+1DA13","U+1DA14","U+1DA15","U+1DA16","U+1DA17",
                  "U+1DA18","U+1DA19","U+1DA1A","U+1DA1B","U+1DA1C","U+1DA1D",
                  "U+1DA1E","U+1DA1F","U+1DA20","U+1DA21","U+1DA22","U+1DA23",
                  "U+1DA24","U+1DA25","U+1DA26","U+1DA27","U+1DA28","U+1DA29",
                  "U+1DA2A","U+1DA2B","U+1DA2C","U+1DA2D","U+1DA2E","U+1DA2F",
                  "U+1DA30","U+1DA31","U+1DA32","U+1DA33","U+1DA34","U+1DA35",
                  "U+1DA36","U+1DA3B","U+1DA3C","U+1DA3D","U+1DA3E","U+1DA3F",
                  "U+1DA40","U+1DA41","U+1DA42","U+1DA43","U+1DA44","U+1DA45",
                  "U+1DA46","U+1DA47","U+1DA48","U+1DA49","U+1DA4A","U+1DA4B",
                  "U+1DA4C","U+1DA4D","U+1DA4E","U+1DA4F","U+1DA50","U+1DA51",
                  "U+1DA52","U+1DA53","U+1DA54","U+1DA55","U+1DA56","U+1DA57",
                  "U+1DA58","U+1DA59","U+1DA5A","U+1DA5B","U+1DA5C","U+1DA5D",
                  "U+1DA5E","U+1DA5F","U+1DA60","U+1DA61","U+1DA62","U+1DA63",
                  "U+1DA64","U+1DA65","U+1DA66","U+1DA67","U+1DA68","U+1DA69",
                  "U+1DA6A","U+1DA6B","U+1DA6C","U+1DA75","U+1DA84","U+1DA9B",
                  "U+1DA9C","U+1DA9D","U+1DA9E","U+1DA9F","U+1DAA1","U+1DAA2",
                  "U+1DAA3","U+1DAA4","U+1DAA5","U+1DAA6","U+1DAA7","U+1DAA8",
                  "U+1DAA9","U+1DAAA","U+1DAAB","U+1DAAC","U+1DAAD","U+1DAAE",
                  "U+1DAAF","U+1E000","U+1E001","U+1E002","U+1E003","U+1E004",
                  "U+1E005","U+1E006","U+1E008","U+1E009","U+1E00A","U+1E00B",
                  "U+1E00C","U+1E00D","U+1E00E","U+1E00F","U+1E010","U+1E011",
                  "U+1E012","U+1E013","U+1E014","U+1E015","U+1E016","U+1E017",
                  "U+1E018","U+1E01B","U+1E01C","U+1E01D","U+1E01E","U+1E01F",
                  "U+1E020","U+1E021","U+1E023","U+1E024","U+1E026","U+1E027",
                  "U+1E028","U+1E029","U+1E02A","U+1E030","U+1E031","U+1E032",
                  "U+1E033","U+1E034","U+1E035","U+1E036","U+1E037","U+1E038",
                  "U+1E039","U+1E03A","U+1E03B","U+1E03C","U+1E03D","U+1E03E",
                  "U+1E03F","U+1E040","U+1E041","U+1E042","U+1E043","U+1E044",
                  "U+1E045","U+1E046","U+1E047","U+1E048","U+1E049","U+1E04A",
                  "U+1E04B","U+1E04C","U+1E04D","U+1E04E","U+1E04F","U+1E050",
                  "U+1E051","U+1E052","U+1E053","U+1E054","U+1E055","U+1E056",
                  "U+1E057","U+1E058","U+1E059","U+1E05A","U+1E05B","U+1E05C",
                  "U+1E05D","U+1E05E","U+1E05F","U+1E060","U+1E061","U+1E062",
                  "U+1E063","U+1E064","U+1E065","U+1E066","U+1E067","U+1E068",
                  "U+1E069","U+1E06A","U+1E06B","U+1E06C","U+1E06D","U+1E08F",
                  "U+1E130","U+1E131","U+1E132","U+1E133","U+1E134","U+1E135",
                  "U+1E136","U+1E137","U+1E138","U+1E139","U+1E13A","U+1E13B",
                  "U+1E13C","U+1E13D","U+1E2AE","U+1E2EC","U+1E2ED","U+1E2EE",
                  "U+1E2EF","U+1E4EB","U+1E4EC","U+1E4ED","U+1E4EE","U+1E4EF",
                  "U+1E5EE","U+1E5EF","U+1E6E3","U+1E6E6","U+1E6EE","U+1E6EF",
                  "U+1E6F5","U+1E6FF","U+1E8D0","U+1E8D1","U+1E8D2","U+1E8D3",
                  "U+1E8D4","U+1E8D5","U+1E8D6","U+1E944","U+1E945","U+1E946",
                  "U+1E947","U+1E948","U+1E949","U+1E94A","U+1E94B","U+1F3FB",
                  "U+1F3FC","U+1F3FD","U+1F3FE","U+1F3FF","U+E0001","U+E0020",
                  "U+E0021","U+E0022","U+E0023","U+E0024","U+E0025","U+E0026",
                  "U+E0027","U+E0028","U+E0029","U+E002A","U+E002B","U+E002C",
                  "U+E002D","U+E002E","U+E002F","U+E0030","U+E0031","U+E0032",
                  "U+E0033","U+E0034","U+E0035","U+E0036","U+E0037","U+E0038",
                  "U+E0039","U+E003A","U+E003B","U+E003C","U+E003D","U+E003E",
                  "U+E003F","U+E0040","U+E0041","U+E0042","U+E0043","U+E0044",
                  "U+E0045","U+E0046","U+E0047","U+E0048","U+E0049","U+E004A",
                  "U+E004B","U+E004C","U+E004D","U+E004E","U+E004F","U+E0050",
                  "U+E0051","U+E0052","U+E0053","U+E0054","U+E0055","U+E0056",
                  "U+E0057","U+E0058","U+E0059","U+E005A","U+E005B","U+E005C",
                  "U+E005D","U+E005E","U+E005F","U+E0060","U+E0061","U+E0062",
                  "U+E0063","U+E0064","U+E0065","U+E0066","U+E0067","U+E0068",
                  "U+E0069","U+E006A","U+E006B","U+E006C","U+E006D","U+E006E",
                  "U+E006F","U+E0070","U+E0071","U+E0072","U+E0073","U+E0074",
                  "U+E0075","U+E0076","U+E0077","U+E0078","U+E0079","U+E007A",
                  "U+E007B","U+E007C","U+E007D","U+E007E","U+E007F","U+E0100",
                  "U+E0101","U+E0102","U+E0103","U+E0104","U+E0105","U+E0106",
                  "U+E0107","U+E0108","U+E0109","U+E010A","U+E010B","U+E010C",
                  "U+E010D","U+E010E","U+E010F","U+E0110","U+E0111","U+E0112",
                  "U+E0113","U+E0114","U+E0115","U+E0116","U+E0117","U+E0118",
                  "U+E0119","U+E011A","U+E011B","U+E011C","U+E011D","U+E011E",
                  "U+E011F","U+E0120","U+E0121","U+E0122","U+E0123","U+E0124",
                  "U+E0125","U+E0126","U+E0127","U+E0128","U+E0129","U+E012A",
                  "U+E012B","U+E012C","U+E012D","U+E012E","U+E012F","U+E0130",
                  "U+E0131","U+E0132","U+E0133","U+E0134","U+E0135","U+E0136",
                  "U+E0137","U+E0138","U+E0139","U+E013A","U+E013B","U+E013C",
                  "U+E013D","U+E013E","U+E013F","U+E0140","U+E0141","U+E0142",
                  "U+E0143","U+E0144","U+E0145","U+E0146","U+E0147","U+E0148",
                  "U+E0149","U+E014A","U+E014B","U+E014C","U+E014D","U+E014E",
                  "U+E014F","U+E0150","U+E0151","U+E0152","U+E0153","U+E0154",
                  "U+E0155","U+E0156","U+E0157","U+E0158","U+E0159","U+E015A",
                  "U+E015B","U+E015C","U+E015D","U+E015E","U+E015F","U+E0160",
                  "U+E0161","U+E0162","U+E0163","U+E0164","U+E0165","U+E0166",
                  "U+E0167","U+E0168","U+E0169","U+E016A","U+E016B","U+E016C",
                  "U+E016D","U+E016E","U+E016F","U+E0170","U+E0171","U+E0172",
                  "U+E0173","U+E0174","U+E0175","U+E0176","U+E0177","U+E0178",
                  "U+E0179","U+E017A","U+E017B","U+E017C","U+E017D","U+E017E",
                  "U+E017F","U+E0180","U+E0181","U+E0182","U+E0183","U+E0184",
                  "U+E0185","U+E0186","U+E0187","U+E0188","U+E0189","U+E018A",
                  "U+E018B","U+E018C","U+E018D","U+E018E","U+E018F","U+E0190",
                  "U+E0191","U+E0192","U+E0193","U+E0194","U+E0195","U+E0196",
                  "U+E0197","U+E0198","U+E0199","U+E019A","U+E019B","U+E019C",
                  "U+E019D","U+E019E","U+E019F","U+E01A0","U+E01A1","U+E01A2",
                  "U+E01A3","U+E01A4","U+E01A5","U+E01A6","U+E01A7","U+E01A8",
                  "U+E01A9","U+E01AA","U+E01AB","U+E01AC","U+E01AD","U+E01AE",
                  "U+E01AF","U+E01B0","U+E01B1","U+E01B2","U+E01B3","U+E01B4",
                  "U+E01B5","U+E01B6","U+E01B7","U+E01B8","U+E01B9","U+E01BA",
                  "U+E01BB","U+E01BC","U+E01BD","U+E01BE","U+E01BF","U+E01C0",
                  "U+E01C1","U+E01C2","U+E01C3","U+E01C4","U+E01C5","U+E01C6",
                  "U+E01C7","U+E01C8","U+E01C9","U+E01CA","U+E01CB","U+E01CC",
                  "U+E01CD","U+E01CE","U+E01CF","U+E01D0","U+E01D1","U+E01D2",
                  "U+E01D3","U+E01D4","U+E01D5","U+E01D6","U+E01D7","U+E01D8",
                  "U+E01D9","U+E01DA","U+E01DB","U+E01DC","U+E01DD","U+E01DE",
                  "U+E01DF","U+E01E0","U+E01E1","U+E01E2","U+E01E3","U+E01E4",
                  "U+E01E5","U+E01E6","U+E01E7","U+E01E8","U+E01E9","U+E01EA",
                  "U+E01EB","U+E01EC","U+E01ED","U+E01EE","U+E01EF"}

\* the characters with the Unicode property Cased and without Case_Ignorable
Cased == {"A","B","C","D","E","F","G","H","I","J","K","L","M","N","O","P","Q",
          "R","S","T","U","V","W","X","Y","Z","a","b","c","d","e","f","g","h",
          "i","j","k","l","m","n","o","p","q","r","s","t","u","v","w","x","y",
          "z","ª","µ","º","À","Á","Â","Ã","Ä","Å","Æ","Ç","È","É","Ê","Ë","Ì",
          "Í","Î","Ï","Ð","Ñ","Ò","Ó","Ô","Õ","Ö","Ø","Ù","Ú","Û","Ü","Ý","Þ",
          "ß","à","á","â","ã","ä","å","æ","ç","è","é","ê","ë","ì","í","î","ï",
          "ð","ñ","ò","ó","ô","õ","ö","ø","ù","ú","û","ü","ý","þ","ÿ",
          "U+0100","U+0101","U+0102","U+0103","U+0104","U+0105","U+0106",
          "U+0107","U+0108","U+0109","U+010A","U+010B","U+010C","U+010D",
          "U+010E","U+010F","U+0110","U+0111","U+0112","U+0113","U+0114",
          "U+0115","U+0116","U+0117","U+0118","U+0119","U+011A","U+011B",
          "U+011C","U+011D","U+011E","U+011F","U+0120","U+0121","U+0122",
          "U+0123","U+0124","U+0125","U+0126","U+0127","U+0128","U+0129",
          "U+012A","U+012B","U+012C","U+012D","U+012E","U+012F","U+0130",
          "U+0131","U+0132","U+0133","U+0134","U+0135","U+0136","U+0137",
          "U+0138","U+0139","U+013A","U+013B","U+013C","U+013D","U+013E",
          "U+013F","U+0140","U+0141","U+0142","U+0143","U+0144","U+0145",
          "U+0146","U+0147","U+0148","U+0149","U+014A","U+014B","U+014C",
          "U+014D","U+014E","U+014F","U+0150","U+0151","U+0152","U+0153",
          "U+0154","U+0155","U+0156","U+0157","U+0158","U+0159","U+015A",
          "U+015B","U+015C","U+015D","U+015E","U+015F","U+0160","U+0161",
          "U+0162","U+0163","U+0164","U+0165","U+0166","U+0167","U+0168",
          "U+0169","U+016A","U+016B","U+016C","U+016D","U+016E","U+016F",
          "U+0170","U+0171","U+0172","U+0173","U+0174","U+0175","U+0176",
          "U+0177","U+0178","U+0179","U+017A","U+017B","U+017C","U+017D",
          "U+017E","U+017F","ƀ","Ɓ","Ƃ","ƃ","Ƅ","ƅ","Ɔ","Ƈ","ƈ","Ɖ","Ɗ","Ƌ",
          "ƌ","ƍ","Ǝ","Ə","Ɛ","Ƒ","ƒ","Ɠ","Ɣ","ƕ","Ɩ","Ɨ","Ƙ","ƙ","ƚ","ƛ","Ɯ",
          "Ɲ","ƞ","Ɵ","Ơ","ơ","Ƣ","ƣ","Ƥ","ƥ","Ʀ","Ƨ","ƨ","Ʃ","ƪ","ƫ","Ƭ","ƭ",
          "Ʈ","Ư","ư","Ʊ","Ʋ","Ƴ","ƴ","Ƶ","ƶ","Ʒ","Ƹ","ƹ","ƺ","Ƽ","ƽ","ƾ","ƿ",
          "Ǆ","ǅ","ǆ","Ǉ","ǈ","ǉ","Ǌ","ǋ","ǌ","Ǎ","ǎ","Ǐ","ǐ","Ǒ","ǒ","Ǔ","ǔ",
          "Ǖ","ǖ","Ǘ","ǘ","Ǚ","ǚ","Ǜ","ǜ","ǝ","Ǟ","ǟ","Ǡ","ǡ","Ǣ","ǣ","Ǥ","ǥ",
          "Ǧ","ǧ","Ǩ","ǩ","Ǫ","ǫ","Ǭ","ǭ","Ǯ","ǯ","ǰ","Ǳ","ǲ","ǳ","Ǵ","ǵ","Ƕ",
          "Ƿ","Ǹ","ǹ","Ǻ","ǻ","Ǽ","ǽ","Ǿ","ǿ","U+0200","U+0201","U+0202",
          "U+0203","U+0204","U+0205","U+0206","U+0207","U+0208","U+0209",
          "U+020A","U+020B","U+020C","U+020D","U+020E","U+020F","U+0210",
          "U+0211","U+0212","U+0213","U+0214","U+0215","U+0216","U+0217",
          "U+0218","U+0219","U+021A","U+021B","U+021C","U+021D","U+021E",
          "U+021F","U+0220","U+0221","U+0222","U+0223","U+0224","U+0225",
          "U+0226","U+0227","U+0228","U+0229","U+022A","U+022B","U+022C",
          "U+022D","U+022E","U+022F","U+0230","U+0231","U+0232","U+0233",
          "U+0234","U+0235","U+0236","U+0237","U+0238","U+0239","U+023A",
          "U+023B","U+023C","U+023D","U+023E","U+023F","U+0240","U+0241",
          "U+0242","U+0243","U+0244","U+0245","U+0246","U+0247","U+0248",
          "U+0249","U+024A","U+024B","U+024C","U+024D","U+024E","U+024F",
          "U+0250","U+0251","U+0252","U+0253","U+0254","U+0255","U+0256",
          "U+0257","U+0258","U+0259","U+025A","U+025B","U+025C","U+025D",
          "U+025E","U+025F","U+0260","U+0261","U+0262","U+0263","U+0264",
          "U+0265","U+0266","U+0267","U+0268","U+0269","U+026A","U+026B",
          "U+026C","U+026D","U+026E","U+026F","U+0270","U+0271","U+0272",
          "U+0273","U+0274","U+0275","U+0276","U+0277","U+0278","U+0279",
          "U+027A","U+027B","U+027C","U+027D","U+027E","U+027F","ʀ","ʁ","ʂ",
          "ʃ","ʄ","ʅ","ʆ","ʇ","ʈ","ʉ","ʊ","ʋ","ʌ","ʍ","ʎ","ʏ","ʐ","ʑ","ʒ","ʓ",
          "ʖ","ʗ","ʘ","ʙ","ʚ","ʛ","ʜ","ʝ","ʞ","ʟ","ʠ","ʡ","ʢ","ʣ","ʤ","ʥ","ʦ",
          "ʧ","ʨ","ʩ","ʪ","ʫ","ʬ","ʭ","ʮ","ʯ","U+0370","U+0371","U+0372",
          "U+0373","U+0376","U+0377","U+037B","U+037C","U+037D","U+037F","Ά",
          "Έ","Ή","Ί","Ό","Ύ","Ώ","ΐ","Α","Β","Γ","Δ","Ε","Ζ","Η","Θ","Ι","Κ",
          "Λ","Μ","Ν","Ξ","Ο","Π","Ρ","Σ","Τ","Υ","Φ","Χ","Ψ","Ω","Ϊ","Ϋ","ά",
          "έ","ή","ί","ΰ","α","β","γ","δ","ε","ζ","η","θ","ι","κ","λ","μ","ν",
          "ξ","ο","π","ρ","ς","σ","τ","υ","φ","χ","ψ","ω","ϊ","ϋ","ό","ύ","ώ",
          "Ϗ","ϐ","ϑ","ϒ","ϓ","ϔ","ϕ","ϖ","ϗ","Ϙ","ϙ","Ϛ","ϛ","Ϝ","ϝ","Ϟ","ϟ",
          "Ϡ","ϡ","Ϣ","ϣ","Ϥ","ϥ","Ϧ","ϧ","Ϩ","ϩ","Ϫ","ϫ","Ϭ","ϭ","Ϯ","ϯ","ϰ",
          "ϱ","ϲ","ϳ","ϴ","ϵ","Ϸ","ϸ","Ϲ","Ϻ","ϻ","ϼ","Ͻ","Ͼ","Ͽ","U+0400",
          "U+0401","U+0402","U+0403","U+0404","U+0405","U+0406","U+0407",
          "U+0408","U+0409","U+040A","U+040B","U+040C","U+040D","U+040E",
          "U+040F","U+0410","U+0411","U+0412","U+0413","U+0414","U+0415",
          "U+0416","U+0417","U+0418","U+0419","U+041A","U+041B","U+041C",
          "U+041D","U+041E","U+041F","U+0420","U+0421","U+0422","U+0423",
          "U+0424","U+0425","U+0426","U+0427","U+0428","U+0429","U+042A",
          "U+042B","U+042C","U+042D","U+042E","U+042F","U+0430","U+0431",
          "U+0432","U+0433","U+0434","U+0435","U+0436","U+0437","U+0438",
          "U+0439","U+043A","U+043B","U+043C","U+043D","U+043E","U+043F",
          "U+0440","U+0441","U+0442","U+0443","U+0444","U+0445","U+0446",
          "U+0447","U+0448","U+0449","U+044A","U+044B","U+044C","U+044D",
          "U+044E","U+044F","U+0450","U+0451","U+0452","U+0453","U+0454",
          "U+0455","U+0456","U+0457","U+0458","U+0459","U+045A","U+045B",
          "U+045C","U+045D","U+045E","U+045F","U+0460","U+0461","U+0462",
          "U+0463","U+0464","U+0465","U+0466","U+0467","U+0468","U+0469",
          "U+046A","U+046B","U+046C","U+046D","U+046E","U+046F","U+0470",
          "U+0471","U+0472","U+0473","U+0474","U+0475","U+0476","U+0477",
          "U+0478","U+0479","U+047A","U+047B","U+047C","U+047D","U+047E",
          "U+047F","Ҁ","ҁ","Ҋ","ҋ","Ҍ","ҍ","Ҏ","ҏ","Ґ","ґ","Ғ","ғ","Ҕ","ҕ",
          "Җ","җ","Ҙ","ҙ","Қ","қ","Ҝ","ҝ","Ҟ","ҟ","Ҡ","ҡ","Ң","ң","Ҥ","ҥ","Ҧ",
          "ҧ","Ҩ","ҩ","Ҫ","ҫ","Ҭ","ҭ","Ү","ү","Ұ","ұ","Ҳ","ҳ","Ҵ","ҵ","Ҷ","ҷ",
          "Ҹ","ҹ","Һ","һ","Ҽ","ҽ","Ҿ","ҿ","Ӏ","Ӂ","ӂ","Ӄ","ӄ","Ӆ","ӆ","Ӈ","ӈ",
          "Ӊ","ӊ","Ӌ","ӌ","Ӎ","ӎ","ӏ","Ӑ","ӑ","Ӓ","ӓ","Ӕ","ӕ","Ӗ","ӗ","Ә","ә",
          "Ӛ","ӛ","Ӝ","ӝ","Ӟ","ӟ","Ӡ","ӡ","Ӣ","ӣ","Ӥ","ӥ","Ӧ","ӧ","Ө","ө","Ӫ",
          "ӫ","Ӭ","ӭ","Ӯ","ӯ","Ӱ","ӱ","Ӳ","ӳ","Ӵ","ӵ","Ӷ","ӷ","Ӹ","ӹ","Ӻ","ӻ",
          "Ӽ","ӽ","Ӿ","ӿ","U+0500","U+0501","U+0502","U+0503","U+0504",
          "U+0505","U+0506","U+0507","U+0508","U+0509","U+050A","U+050B",
          "U+050C","U+050D","U+050E","U+050F","U+0510","U+0511","U+0512",
          "U+0513","U+0514","U+0515","U+0516","U+0517","U+0518","U+0519",
          "U+051A","U+051B","U+051C","U+051D","U+051E","U+051F","U+0520",
          "U+0521","U+0522","U+0523","U+0524","U+0525","U+0526","U+0527",
          "U+0528","U+0529","U+052A","U+052B","U+052C","U+052D","U+052E",
          "U+052F","U+0531","U+0532","U+0533","U+0534","U+0535","U+0536",
          "U+0537","U+0538","U+0539","U+053A","U+053B","U+053C","U+053D",
          "U+053E","U+053F","U+0540","U+0541","U+0542","U+0543","U+0544",
          "U+0545","U+0546","U+0547","U+0548","U+0549","U+054A","U+054B",
          "U+054C","U+054D","U+054E","U+054F","U+0550","U+0551","U+0552",
          "U+0553","U+0554","U+0555","U+0556","U+0560","U+0561","U+0562",
          "U+0563","U+0564","U+0565","U+0566","U+0567","U+0568","U+0569",
          "U+056A","U+056B","U+056C","U+056D","U+056E","U+056F","U+0570",
          "U+0571","U+0572","U+0573","U+0574","U+0575","U+0576","U+0577",
          "U+0578","U+0579","U+057A","U+057B","U+057C","U+057D","U+057E",
          "U+057F","ր","ց","ւ","փ","ք","օ","ֆ","և","ֈ","Ⴀ","Ⴁ","Ⴂ","Ⴃ","Ⴄ",
          "Ⴅ","Ⴆ","Ⴇ","Ⴈ","Ⴉ","Ⴊ","Ⴋ","Ⴌ","Ⴍ","Ⴎ","Ⴏ","Ⴐ","Ⴑ","Ⴒ","Ⴓ","Ⴔ","Ⴕ",
          "Ⴖ","Ⴗ","Ⴘ","Ⴙ","Ⴚ","Ⴛ","Ⴜ","Ⴝ","Ⴞ","Ⴟ","Ⴠ","Ⴡ","Ⴢ","Ⴣ","Ⴤ","Ⴥ","Ⴧ",
          "Ⴭ","ა","ბ","გ","დ","ე","ვ","ზ","თ","ი","კ","ლ","მ","ნ","ო","პ","ჟ",
          "რ","ს","ტ","უ","ფ","ქ","ღ","ყ","შ","ჩ","ც","ძ","წ","ჭ","ხ","ჯ","ჰ",
          "ჱ","ჲ","ჳ","ჴ","ჵ","ჶ","ჷ","ჸ","ჹ","ჺ","ჽ","ჾ","ჿ","Ꭰ","Ꭱ","Ꭲ","Ꭳ",
          "Ꭴ","Ꭵ","Ꭶ","Ꭷ","Ꭸ","Ꭹ","Ꭺ","Ꭻ","Ꭼ","Ꭽ","Ꭾ","Ꭿ","Ꮀ","Ꮁ","Ꮂ","Ꮃ","Ꮄ",
          "Ꮅ","Ꮆ","Ꮇ","Ꮈ","Ꮉ","Ꮊ","Ꮋ","Ꮌ","Ꮍ","Ꮎ","Ꮏ","Ꮐ","Ꮑ","Ꮒ","Ꮓ","Ꮔ","Ꮕ",
          "Ꮖ","Ꮗ","Ꮘ","Ꮙ","Ꮚ","Ꮛ","Ꮜ","Ꮝ","Ꮞ","Ꮟ","Ꮠ","Ꮡ","Ꮢ","Ꮣ","Ꮤ","Ꮥ","Ꮦ",
          "Ꮧ","Ꮨ","Ꮩ","Ꮪ","Ꮫ","Ꮬ","Ꮭ","Ꮮ","Ꮯ","Ꮰ","Ꮱ","Ꮲ","Ꮳ","Ꮴ","Ꮵ","Ꮶ","Ꮷ",
          "Ꮸ","Ꮹ","Ꮺ","Ꮻ","Ꮼ","Ꮽ","Ꮾ","Ꮿ","Ᏸ","Ᏹ","Ᏺ","Ᏻ","Ᏼ","Ᏽ","ᏸ","ᏹ","ᏺ",
          "ᏻ","ᏼ","ᏽ","ᲀ","ᲁ","ᲂ","ᲃ","ᲄ","ᲅ","ᲆ","ᲇ","ᲈ","Ᲊ","ᲊ","Ა","Ბ","Გ",
          "Დ","Ე","Ვ","Ზ","Თ","Ი","Კ","Ლ","Მ","Ნ","Ო","Პ","Ჟ","Რ","Ს","Ტ","Უ",
          "Ფ","Ქ","Ღ","Ყ","Შ","Ჩ","Ც","Ძ","Წ","Ჭ","Ხ","Ჯ","Ჰ","Ჱ","Ჲ","Ჳ","Ჴ",
          "Ჵ","Ჶ","Ჷ","Ჸ","Ჹ","Ჺ","Ჽ","Ჾ","Ჿ","U+1D00","U+1D01","U+1D02",
          "U+1D03","U+1D04","U+1D05","U+1D06","U+1D07","U+1D08","U+1D09",
          "U+1D0A","U+1D0B","U+1D0C","U+1D0D","U+1D0E","U+1D0F","U+1D10",
          "U+1D11","U+1D12","U+1D13","U+1D14","U+1D15","U+1D16","U+1D17",
          "U+1D18","U+1D19","U+1D1A","U+1D1B","U+1D1C","U+1D1D","U+1D1E",
          "U+1D1F","U+1D20","U+1D21","U+1D22","U+1D23","U+1D24","U+1D25",
          "U+1D26","U+1D27","U+1D28","U+1D29","U+1D2A","U+1D2B","U+1D6B",
          "U+1D6C","U+1D6D","U+1D6E","U+1D6F","U+1D70","U+1D71","U+1D72",
          "U+1D73","U+1D74","U+1D75","U+1D76","U+1D77","U+1D79","U+1D7A",
          "U+1D7B","U+1D7C","U+1D7D","U+1D7E","U+1D7F","ᶀ","ᶁ","ᶂ","ᶃ","ᶄ",
          "ᶅ","ᶆ","ᶇ","ᶈ","ᶉ","ᶊ","ᶋ","ᶌ","ᶍ","ᶎ","ᶏ","ᶐ","ᶑ","ᶒ","ᶓ","ᶔ","ᶕ",
          "ᶖ","ᶗ","ᶘ","ᶙ","ᶚ","U+1E00","U+1E01","U+1E02","U+1E03","U+1E04",
          "U+1E05","U+1E06","U+1E07","U+1E08","U+1E09","U+1E0A","U+1E0B",
          "U+1E0C","U+1E0D","U+1E0E","U+1E0F","U+1E10","U+1E11","U+1E12",
          "U+1E13","U+1E14","U+1E15","U+1E16","U+1E17","U+1E18","U+1E19",
          "U+1E1A","U+1E1B","U+1E1C","U+1E1D","U+1E1E","U+1E1F","U+1E20",
          "U+1E21","U+1E22","U+1E23","U+1E24","U+1E25","U+1E26","U+1E27",
          "U+1E28","U+1E29","U+1E2A","U+1E2B","U+1E2C","U+1E2D","U+1E2E",
          "U+1E2F","U+1E30","U+1E31","U+1E32","U+1E33","U+1E34","U+1E35",
          "U+1E36","U+1E37","U+1E38","U+1E39","U+1E3A","U+1E3B","U+1E3C",
          "U+1E3D","U+1E3E","U+1E3F","U+1E40","U+1E41","U+1E42","U+1E43",
          "U+1E44","U+1E45","U+1E46","U+1E47","U+1E48","U+1E49","U+1E4A",
          "U+1E4B","U+1E4C","U+1E4D","U+1E4E","U+1E4F","U+1E50","U+1E51",
          "U+1E52","U+1E53","U+1E54","U+1E55","U+1E56","U+1E57","U+1E58",
          "U+1E59","U+1E5A","U+1E5B","U+1E5C","U+1E5D","U+1E5E","U+1E5F",
          "U+1E60","U+1E61","U+1E62","U+1E63","U+1E64","U+1E65","U+1E66",
          "U+1E67","U+1E68","U+1E69","U+1E6A","U+1E6B","U+1E6C","U+1E6D",
          "U+1E6E","U+1E6F","U+1E70","U+1E71","U+1E72","U+1E73","U+1E74",
          "U+1E75","U+1E76","U+1E77","U+1E78","U+1E79","U+1E7A","U+1E7B",
          "U+1E7C","U+1E7D","U+1E7E","U+1E7F","Ẁ","ẁ","Ẃ","ẃ","Ẅ","ẅ","Ẇ","ẇ",
          "Ẉ","ẉ","Ẋ","ẋ","Ẍ","ẍ","Ẏ","ẏ","Ẑ","ẑ","Ẓ","ẓ","Ẕ","ẕ","ẖ","ẗ","ẘ",
          "ẙ","ẚ","ẛ","ẜ","ẝ","ẞ","ẟ","Ạ","ạ","Ả","ả","Ấ","ấ","Ầ","ầ","Ẩ","ẩ",
          "Ẫ","ẫ","Ậ","ậ","Ắ","ắ","Ằ","ằ","Ẳ","ẳ","Ẵ","ẵ","Ặ","ặ","Ẹ","ẹ","Ẻ",
          "ẻ","Ẽ","ẽ","Ế","ế","Ề","ề","Ể","ể","Ễ","ễ","Ệ","ệ","Ỉ","ỉ","Ị","ị",
          "Ọ","ọ","Ỏ","ỏ","Ố","ố","Ồ","ồ","Ổ","ổ","Ỗ","ỗ","Ộ","ộ","Ớ","ớ","Ờ",
          "ờ","Ở","ở","Ỡ","ỡ","Ợ","ợ","Ụ","ụ","Ủ","ủ","Ứ","ứ","Ừ","ừ","Ử","ử",
          "Ữ","ữ","Ự","ự","Ỳ","ỳ","Ỵ","ỵ","Ỷ","ỷ","Ỹ","ỹ","Ỻ","ỻ","Ỽ","ỽ","Ỿ",
          "ỿ","U+1F00","U+1F01","U+1F02","U+1F03","U+1F04","U+1F05","U+1F06",
          "U+1F07","U+1F08","U+1F09","U+1F0A","U+1F0B","U+1F0C","U+1F0D",
          "U+1F0E","U+1F0F","U+1F10","U+1F11","U+1F12","U+1F13","U+1F14",
          "U+1F15","U+1F18","U+1F19","U+1F1A","U+1F1B","U+1F1C","U+1F1D",
          "U+1F20","U+1F21","U+1F22","U+1F23","U+1F24","U+1F25","U+1F26",
          "U+1F27","U+1F28","U+1F29","U+1F2A","U+1F2B","U+1F2C","U+1F2D",
          "U+1F2E","U+1F2F","U+1F30","U+1F31","U+1F32","U+1F33","U+1F34",
          "U+1F35","U+1F36","U+1F37","U+1F38","U+1F39","U+1F3A","U+1F3B",
          "U+1F3C","U+1F3D","U+1F3E","U+1F3F","U+1F40","U+1F41","U+1F42",
          "U+1F43","U+1F44","U+1F45","U+1F48","U+1F49","U+1F4A","U+1F4B",
          "U+1F4C","U+1F4D","U+1F50","U+1F51","U+1F52","U+1F53","U+1F54",
          "U+1F55","U+1F56","U+1F57","U+1F59","U+1F5B","U+1F5D","U+1F5F",
          "U+1F60","U+1F61","U+1F62","U+1F63","U+1F64","U+1F65","U+1F66",
          "U+1F67","U+1F68","U+1F69","U+1F6A","U+1F6B","U+1F6C","U+1F6D",
          "U+1F6E","U+1F6F","U+1F70","U+1F71","U+1F72","U+1F73","U+1F74",
          "U+1F75","U+1F76","U+1F77","U+1F78","U+1F79","U+1F7A","U+1F7B",
          "U+1F7C","U+1F7D","ᾀ","ᾁ","ᾂ","ᾃ","ᾄ","ᾅ","ᾆ","ᾇ","ᾈ","ᾉ","ᾊ","ᾋ",
          "ᾌ","ᾍ","ᾎ","ᾏ","ᾐ","ᾑ","ᾒ","ᾓ","ᾔ","ᾕ","ᾖ","ᾗ","ᾘ","ᾙ","ᾚ","ᾛ","ᾜ",
          "ᾝ","ᾞ","ᾟ","ᾠ","ᾡ","ᾢ","ᾣ","ᾤ","ᾥ","ᾦ","ᾧ","ᾨ","ᾩ","ᾪ","ᾫ","ᾬ","ᾭ",
          "ᾮ","ᾯ","ᾰ","ᾱ","ᾲ","ᾳ","ᾴ","ᾶ","ᾷ","Ᾰ","Ᾱ","Ὰ","Ά","ᾼ","ι","ῂ","ῃ",
          "ῄ","ῆ","ῇ","Ὲ","Έ","Ὴ","Ή","ῌ","ῐ","ῑ","ῒ","ΐ","ῖ","ῗ","Ῐ","Ῑ","Ὶ",
          "Ί","ῠ","ῡ","ῢ","ΰ","ῤ","ῥ","ῦ","ῧ","Ῠ","Ῡ","Ὺ","Ύ","Ῥ","ῲ","ῳ","ῴ",
          "ῶ","ῷ","Ὸ","Ό","Ὼ","Ώ","ῼ","U+2102","U+2107","U+210A","U+210B",
          "U+210C","U+210D","U+210E","U+210F","U+2110","U+2111","U+2112",
          "U+2113","U+2115","U+2119","U+211A","U+211B","U+211C","U+211D",
          "U+2124","U+2126","U+2128","U+212A","U+212B","U+212C","U+212D",
          "U+212F","U+2130","U+2131","U+2132","U+2133","U+2134","U+2139",
          "U+213C","U+213D","U+213E","U+213F","U+2145","U+2146","U+2147",
          "U+2148","U+2149","U+214E","U+2160","U+2161","U+2162","U+2163",
          "U+2164","U+2165","U+2166","U+2167","U+2168","U+2169","U+216A",
          "U+216B","U+216C","U+216D","U+216E","U+216F","U+2170","U+2171",
          "U+2172","U+2173","U+2174","U+2175","U+2176","U+2177","U+2178",
          "U+2179","U+217A","U+217B","U+217C","U+217D","U+217E","U+217F","Ↄ",
          "ↄ","Ⓐ","Ⓑ","Ⓒ","Ⓓ","Ⓔ","Ⓕ","Ⓖ","Ⓗ","Ⓘ","Ⓙ","Ⓚ","Ⓛ","Ⓜ","Ⓝ","Ⓞ","Ⓟ",
          "Ⓠ","Ⓡ","Ⓢ","Ⓣ","Ⓤ","Ⓥ","Ⓦ","Ⓧ","Ⓨ","Ⓩ","ⓐ","ⓑ","ⓒ","ⓓ","ⓔ","ⓕ","ⓖ",
          "ⓗ","ⓘ","ⓙ","ⓚ","ⓛ","ⓜ","ⓝ","ⓞ","ⓟ","ⓠ","ⓡ","ⓢ","ⓣ","ⓤ","ⓥ","ⓦ","ⓧ",
          "ⓨ","ⓩ","U+2C00","U+2C01","U+2C02","U+2C03","U+2C04","U+2C05",
          "U+2C06","U+2C07","U+2C08","U+2C09","U+2C0A","U+2C0B","U+2C0C",
          "U+2C0D","U+2C0E","U+2C0F","U+2C10","U+2C11","U+2C12","U+2C13",
          "U+2C14","U+2C15","U+2C16","U+2C17","U+2C18","U+2C19","U+2C1A",
          "U+2C1B","U+2C1C","U+2C1D","U+2C1E","U+2C1F","U+2C20","U+2C21",
          "U+2C22","U+2C23","U+2C24","U+2C25","U+2C26","U+2C27","U+2C28",
          "U+2C29","U+2C2A","U+2C2B","U+2C2C","U+2C2D","U+2C2E","U+2C2F",
          "U+2C30","U+2C31","U+2C32","U+2C33","U+2C34","U+2C35","U+2C36",
          "U+2C37","U+2C38","U+2C39","U+2C3A","U+2C3B","U+2C3C","U+2C3D",
          "U+2C3E","U+2C3F","U+2C40","U+2C41","U+2C42","U+2C43","U+2C44",
          "U+2C45","U+2C46","U+2C47","U+2C48","U+2C49","U+2C4A","U+2C4B",
          "U+2C4C","U+2C4D","U+2C4E","U+2C4F","U+2C50","U+2C51","U+2C52",
          "U+2C53","U+2C54","U+2C55","U+2C56","U+2C57","U+2C58","U+2C59",
          "U+2C5A","U+2C5B","U+2C5C","U+2C5D","U+2C5E","U+2C5F","U+2C60",
          "U+2C61","U+2C62","U+2C63","U+2C64","U+2C65","U+2C66","U+2C67",
          "U+2C68","U+2C69","U+2C6A","U+2C6B","U+2C6C","U+2C6D","U+2C6E",
          "U+2C6F","U+2C70","U+2C71","U+2C72","U+2C73","U+2C74","U+2C75",
          "U+2C76","U+2C77","U+2C78","U+2C79","U+2C7A","U+2C7B","U+2C7E",
          "U+2C7F","Ⲁ","ⲁ","Ⲃ","ⲃ","Ⲅ","ⲅ","Ⲇ","ⲇ","Ⲉ","ⲉ","Ⲋ","ⲋ","Ⲍ","ⲍ",
          "Ⲏ","ⲏ","Ⲑ","ⲑ","Ⲓ","ⲓ","Ⲕ","ⲕ","Ⲗ","ⲗ","Ⲙ","ⲙ","Ⲛ","ⲛ","Ⲝ","ⲝ","Ⲟ",
          "ⲟ","Ⲡ","ⲡ","Ⲣ","ⲣ","Ⲥ","ⲥ","Ⲧ","ⲧ","Ⲩ","ⲩ","Ⲫ","ⲫ","Ⲭ","ⲭ","Ⲯ","ⲯ",
          "Ⲱ","ⲱ","Ⲳ","ⲳ","Ⲵ","ⲵ","Ⲷ","ⲷ","Ⲹ","ⲹ","Ⲻ","ⲻ","Ⲽ","ⲽ","Ⲿ","ⲿ","Ⳁ",
          "ⳁ","Ⳃ","ⳃ","Ⳅ","ⳅ","Ⳇ","ⳇ","Ⳉ","ⳉ","Ⳋ","ⳋ","Ⳍ","ⳍ","Ⳏ","ⳏ","Ⳑ","ⳑ",
          "Ⳓ","ⳓ","Ⳕ","ⳕ","Ⳗ","ⳗ","Ⳙ","ⳙ","Ⳛ","ⳛ","Ⳝ","ⳝ","Ⳟ","ⳟ","Ⳡ","ⳡ","Ⳣ",
          "ⳣ","ⳤ","Ⳬ","ⳬ","Ⳮ","ⳮ","Ⳳ","ⳳ","U+2D00","U+2D01","U+2D02","U+2D03",
          "U+2D04","U+2D05","U+2D06","U+2D07","U+2D08","U+2D09","U+2D0A",
          "U+2D0B","U+2D0C","U+2D0D","U+2D0E","U+2D0F","U+2D10","U+2D11",
          "U+2D12","U+2D13","U+2D14","U+2D15","U+2D16","U+2D17","U+2D18",
          "U+2D19","U+2D1A","U+2D1B","U+2D1C","U+2D1D","U+2D1E","U+2D1F",
          "U+2D20","U+2D21","U+2D22","U+2D23","U+2D24","U+2D25","U+2D27",
          "U+2D2D","U+A640","U+A641","U+A642","U+A643","U+A644","U+A645",
          "U+A646","U+A647","U+A648","U+A649","U+A64A","U+A64B","U+A64C",
          "U+A64D","U+A64E","U+A64F","U+A650","U+A651","U+A652","U+A653",
          "U+A654","U+A655","U+A656","U+A657","U+A658","U+A659","U+A65A",
          "U+A65B","U+A65C","U+A65D","U+A65E","U+A65F","U+A660","U+A661",
          "U+A662","U+A663","U+A664","U+A665","U+A666","U+A667","U+A668",
          "U+A669","U+A66A","U+A66B","U+A66C","U+A66D","Ꚁ","ꚁ","Ꚃ","ꚃ","Ꚅ",
          "ꚅ","Ꚇ","ꚇ","Ꚉ","ꚉ","Ꚋ","ꚋ","Ꚍ","ꚍ","Ꚏ","ꚏ","Ꚑ","ꚑ","Ꚓ","ꚓ","Ꚕ","ꚕ",
          "Ꚗ","ꚗ","Ꚙ","ꚙ","Ꚛ","ꚛ","U+A722","U+A723","U+A724","U+A725",
          "U+A726","U+A727","U+A728","U+A729","U+A72A","U+A72B","U+A72C",
          "U+A72D","U+A72E","U+A72F","U+A730","U+A731","U+A732","U+A733",
          "U+A734","U+A735","U+A736","U+A737","U+A738","U+A739","U+A73A",
          "U+A73B","U+A73C","U+A73D","U+A73E","U+A73F","U+A740","U+A741",
          "U+A742","U+A743","U+A744","U+A745","U+A746","U+A747","U+A748",
          "U+A749","U+A74A","U+A74B","U+A74C","U+A74D","U+A74E","U+A74F",
          "U+A750","U+A751","U+A752","U+A753","U+A754","U+A755","U+A756",
          "U+A757","U+A758","U+A759","U+A75A","U+A75B","U+A75C","U+A75D",
          "U+A75E","U+A75F","U+A760","U+A761","U+A762","U+A763","U+A764",
          "U+A765","U+A766","U+A767","U+A768","U+A769","U+A76A","U+A76B",
          "U+A76C","U+A76D","U+A76E","U+A76F","U+A771","U+A772","U+A773",
          "U+A774","U+A775","U+A776","U+A777","U+A778","U+A779","U+A77A",
          "U+A77B","U+A77C","U+A77D","U+A77E","U+A77F","Ꞁ","ꞁ","Ꞃ","ꞃ","Ꞅ",
          "ꞅ","Ꞇ","ꞇ","Ꞌ","ꞌ","Ɥ","ꞎ","Ꞑ","ꞑ","Ꞓ","ꞓ","ꞔ","ꞕ","Ꞗ","ꞗ","Ꞙ","ꞙ",
          "Ꞛ","ꞛ","Ꞝ","ꞝ","Ꞟ","ꞟ","Ꞡ","ꞡ","Ꞣ","ꞣ","Ꞥ","ꞥ","Ꞧ","ꞧ","Ꞩ","ꞩ","Ɦ",
          "Ɜ","Ɡ","Ɬ","Ɪ","ꞯ","Ʞ","Ʇ","Ʝ","Ꭓ","Ꞵ","ꞵ","Ꞷ","ꞷ","Ꞹ","ꞹ","Ꞻ","ꞻ",
          "Ꞽ","ꞽ","Ꞿ","ꞿ","Ꟁ","ꟁ","Ꟃ","ꟃ","Ꞔ","Ʂ","Ᶎ","Ꟈ","ꟈ","Ꟊ","ꟊ","Ɤ","Ꟍ",
          "ꟍ","꟎","꟏","Ꟑ","ꟑ","꟒","ꟓ","꟔","ꟕ","Ꟗ","ꟗ","Ꟙ","ꟙ","Ꟛ","ꟛ","Ƛ","Ꟶ",
          "ꟶ","ꟺ","U+AB30","U+AB31","U+AB32","U+AB33","U+AB34","U+AB35",
          "U+AB36","U+AB37","U+AB38","U+AB39","U+AB3A","U+AB3B","U+AB3C",
          "U+AB3D","U+AB3E","U+AB3F","U+AB40","U+AB41","U+AB42","U+AB43",
          "U+AB44","U+AB45","U+AB46","U+AB47","U+AB48","U+AB49","U+AB4A",
          "U+AB4B","U+AB4C","U+AB4D","U+AB4E","U+AB4F","U+AB50","U+AB51",
          "U+AB52","U+AB53","U+AB54","U+AB55","U+AB56","U+AB57","U+AB58",
          "U+AB59","U+AB5A","U+AB60","U+AB61","U+AB62","U+AB63","U+AB64",
          "U+AB65","U+AB66","U+AB67","U+AB68","U+AB70","U+AB71","U+AB72",
          "U+AB73","U+AB74","U+AB75","U+AB76","U+AB77","U+AB78","U+AB79",
          "U+AB7A","U+AB7B","U+AB7C","U+AB7D","U+AB7E","U+AB7F","ꮀ","ꮁ","ꮂ",
          "ꮃ","ꮄ","ꮅ","ꮆ","ꮇ","ꮈ","ꮉ","ꮊ","ꮋ","ꮌ","ꮍ","ꮎ","ꮏ","ꮐ","ꮑ","ꮒ","ꮓ",
          "ꮔ","ꮕ","ꮖ","ꮗ","ꮘ","ꮙ","ꮚ","ꮛ","ꮜ","ꮝ","ꮞ","ꮟ","ꮠ","ꮡ","ꮢ","ꮣ","ꮤ",
          "ꮥ","ꮦ","ꮧ","ꮨ","ꮩ","ꮪ","ꮫ","ꮬ","ꮭ","ꮮ","ꮯ","ꮰ","ꮱ","ꮲ","ꮳ","ꮴ","ꮵ",
          "ꮶ","ꮷ","ꮸ","ꮹ","ꮺ","ꮻ","ꮼ","ꮽ","ꮾ","ꮿ","U+FB00","U+FB01","U+FB02",
          "U+FB03","U+FB04","U+FB05","U+FB06","U+FB13","U+FB14","U+FB15",
          "U+FB16","U+FB17","U+FF21","U+FF22","U+FF23","U+FF24","U+FF25",
          "U+FF26","U+FF27","U+FF28","U+FF29","U+FF2A","U+FF2B","U+FF2C",
          "U+FF2D","U+FF2E","U+FF2F","U+FF30","U+FF31","U+FF32","U+FF33",
          "U+FF34","U+FF35","U+FF36","U+FF37","U+FF38","U+FF39","U+FF3A",
          "U+FF41","U+FF42","U+FF43","U+FF44","U+FF45","U+FF46","U+FF47",
          "U+FF48","U+FF49","U+FF4A","U+FF4B","U+FF4C","U+FF4D","U+FF4E",
          "U+FF4F","U+FF50","U+FF51","U+FF52","U+FF53","U+FF54","U+FF55",
          "U+FF56","U+FF57","U+FF58","U+FF59","U+FF5A","U+10400","U+10401",
          "U+10402","U+10403","U+10404","U+10405","U+10406","U+10407",
          "U+10408","U+10409","U+1040A","U+1040B","U+1040C","U+1040D",
          "U+1040E","U+1040F","U+10410","U+10411","U+10412","U+10413",
          "U+10414","U+10415","U+10416","U+10417","U+10418","U+10419",
          "U+1041A","U+1041B","U+1041C","U+1041D","U+1041E","U+1041F",
          "U+10420","U+10421","U+10422","U+10423","U+10424","U+10425",
          "U+10426","U+10427","U+10428","U+10429","U+1042A","U+1042B",
          "U+1042C","U+1042D","U+1042E","U+1042F","U+10430","U+10431",
          "U+10432","U+10433","U+10434","U+10435","U+10436","U+10437",
          "U+10438","U+10439","U+1043A","U+1043B","U+1043C","U+1043D",
          "U+1043E","U+1043F","U+10440","U+10441","U+10442","U+10443",
          "U+10444","U+10445","U+10446","U+10447","U+10448","U+10449",
          "U+1044A","U+1044B","U+1044C","U+1044D","U+1044E","U+1044F",
          "U+104B0","U+104B1","U+104B2","U+104B3","U+104B4","U+104B5",
          "U+104B6","U+104B7","U+104B8","U+104B9","U+104BA","U+104BB",
          "U+104BC","U+104BD","U+104BE","U+104BF","U+104C0","U+104C1",
          "U+104C2","U+104C3","U+104C4","U+104C5","U+104C6","U+104C7",
          "U+104C8","U+104C9","U+104CA","U+104CB","U+104CC","U+104CD",
          "U+104CE","U+104CF","U+104D0","U+104D1","U+104D2","U+104D3",
          "U+104D8","U+104D9","U+104DA","U+104DB","U+104DC","U+104DD",
          "U+104DE","U+104DF","U+104E0","U+104E1","U+104E2","U+104E3",
          "U+104E4","U+104E5","U+104E6","U+104E7","U+104E8","U+104E9",
          "U+104EA","U+104EB","U+104EC","U+104ED","U+104EE","U+104EF",
          "U+104F0","U+104F1","U+104F2","U+104F3","U+104F4","U+104F5",
          "U+104F6","U+104F7","U+104F8","U+104F9","U+104FA","U+104FB",
          "U+10570","U+10571","U+10572","U+10573","U+10574","U+10575",
          "U+10576","U+10577","U+10578","U+10579","U+1057A","U+1057C",
          "U+1057D","U+1057E","U+1057F","U+10580","U+10581","U+10582",
          "U+10583","U+10584","U+10585","U+10586","U+10587","U+10588",
          "U+10589","U+1058A","U+1058C","U+1058D","U+1058E","U+1058F",
          "U+10590","U+10591","U+10592","U+10594","U+10595","U+10597",
          "U+10598","U+10599","U+1059A","U+1059B","U+1059C","U+1059D",
          "U+1059E","U+1059F","U+105A0","U+105A1","U+105A3","U+105A4",
          "U+105A5","U+105A6","U+105A7","U+105A8","U+105A9","U+105AA",
          "U+105AB","U+105AC","U+105AD","U+105AE","U+105AF","U+105B0",
          "U+105B1","U+105B3","U+105B4","U+105B5","U+105B6","U+105B7",
          "U+105B8","U+105B9","U+105BB","U+105BC","U+10C80","U+10C81",
          "U+10C82","U+10C83","U+10C84","U+10C85","U+10C86","U+10C87",
          "U+10C88","U+10C89","U+10C8A","U+10C8B","U+10C8C","U+10C8D",
          "U+10C8E","U+10C8F","U+10C90","U+10C91","U+10C92","U+10C93",
          "U+10C94","U+10C95","U+10C96","U+10C97","U+10C98","U+10C99",
          "U+10C9A","U+10C9B","U+10C9C","U+10C9D","U+10C9E","U+10C9F",
          "U+10CA0","U+10CA1","U+10CA2","U+10CA3","U+10CA4","U+10CA5",
          "U+10CA6","U+10CA7","U+10CA8","U+10CA9","U+10CAA","U+10CAB",
          "U+10CAC","U+10CAD","U+10CAE","U+10CAF","U+10CB0","U+10CB1",
          "U+10CB2","U+10CC0","U+10CC1","U+10CC2","U+10CC3","U+10CC4",
          "U+10CC5","U+10CC6","U+10CC7","U+10CC8","U+10CC9","U+10CCA",
          "U+10CCB","U+10CCC","U+10CCD","U+10CCE","U+10CCF","U+10CD0",
          "U+10CD1","U+10CD2","U+10CD3","U+10CD4","U+10CD5","U+10CD6",
          "U+10CD7","U+10CD8","U+10CD9","U+10CDA","U+10CDB","U+10CDC",
          "U+10CDD","U+10CDE","U+10CDF","U+10CE0","U+10CE1","U+10CE2",
          "U+10CE3","U+10CE4","U+10CE5","U+10CE6","U+10CE7","U+10CE8",
          "U+10CE9","U+10CEA","U+10CEB","U+10CEC","U+10CED","U+10CEE",
          "U+10CEF","U+10CF0","U+10CF1","U+10CF2","U+10D50","U+10D51",
          "U+10D52","U+10D53","U+10D54","U+10D55","U+10D56","U+10D57",
          "U+10D58","U+10D59","U+10D5A","U+10D5B","U+10D5C","U+10D5D",
          "U+10D5E","U+10D5F","U+10D60","U+10D61","U+10D62","U+10D63",
          "U+10D64","U+10D65","U+10D70","U+10D71","U+10D72","U+10D73",
          "U+10D74","U+10D75","U+10D76","U+10D77","U+10D78","U+10D79",
          "U+10D7A","U+10D7B","U+10D7C","U+10D7D","U+10D7E","U+10D7F",
          "U+10D80","U+10D81","U+10D82","U+10D83","U+10D84","U+10D85",
          "U+118A0","U+118A1","U+118A2","U+118A3","U+118A4","U+118A5",
          "U+118A6","U+118A7","U+118A8","U+118A9","U+118AA","U+118AB",
          "U+118AC","U+118AD","U+118AE","U+118AF","U+118B0","U+118B1",
          "U+118B2","U+118B3","U+118B4","U+118B5","U+118B6","U+118B7",
          "U+118B8","U+118B9","U+118BA","U+118BB","U+118BC","U+118BD",
          "U+118BE","U+118BF","U+118C0","U+118C1","U+118C2","U+118C3",
          "U+118C4","U+118C5","U+118C6","U+118C7","U+118C8","U+118C9",
          "U+118CA","U+118CB","U+118CC","U+118CD","U+118CE","U+118CF",
          "U+118D0","U+118D1","U+118D2","U+118D3","U+118D4","U+118D5",
          "U+118D6","U+118D7","U+118D8","U+118D9","U+118DA","U+118DB",
          "U+118DC","U+118DD","U+118DE","U+118DF","U+16E40","U+16E41",
          "U+16E42","U+16E43","U+16E44","U+16E45","U+16E46","U+16E47",
          "U+16E48","U+16E49","U+16E4A","U+16E4B","U+16E4C","U+16E4D",
          "U+16E4E","U+16E4F","U+16E50","U+16E51","U+16E52","U+16E53",
          "U+16E54","U+16E55","U+16E56","U+16E57","U+16E58","U+16E59",
          "U+16E5A","U+16E5B","U+16E5C","U+16E5D","U+16E5E","U+16E5F",
          "U+16E60","U+16E61","U+16E62","U+16E63","U+16E64","U+16E65",
          "U+16E66","U+16E67","U+16E68","U+16E69","U+16E6A","U+16E6B",
          "U+16E6C","U+16E6D","U+16E6E","U+16E6F","U+16E70","U+16E71",
          "U+16E72","U+16E73","U+16E74","U+16E75","U+16E76","U+16E77",
          "U+16E78","U+16E79","U+16E7A","U+16E7B","U+16E7C","U+16E7D",
          "U+16E7E","U+16E7F","U+16EA0","U+16EA1","U+16EA2","U+16EA3",
          "U+16EA4","U+16EA5","U+16EA6","U+16EA7","U+16EA8","U+16EA9",
          "U+16EAA","U+16EAB","U+16EAC","U+16EAD","U+16EAE","U+16EAF",
          "U+16EB0","U+16EB1","U+16EB2","U+16EB3","U+16EB4","U+16EB5",
          "U+16EB6","U+16EB7","U+16EB8","U+16EBB","U+16EBC","U+16EBD",
          "U+16EBE","U+16EBF","U+16EC0","U+16EC1","U+16EC2","U+16EC3",
          "U+16EC4","U+16EC5","U+16EC6","U+16EC7","U+16EC8","U+16EC9",
          "U+16ECA","U+16ECB","U+16ECC","U+16ECD","U+16ECE","U+16ECF",
          "U+16ED0","U+16ED1","U+16ED2","U+16ED3","U+1D400","U+1D401",
          "U+1D402","U+1D403","U+1D404","U+1D405","U+1D406","U+1D407",
          "U+1D408","U+1D409","U+1D40A","U+1D40B","U+1D40C","U+1D40D",
          "U+1D40E","U+1D40F","U+1D410","U+1D411","U+1D412","U+1D413",
          "U+1D414","U+1D415","U+1D416","U+1D417","U+1D418","U+1D419",
          "U+1D41A","U+1D41B","U+1D41C","U+1D41D","U+1D41E","U+1D41F",
          "U+1D420","U+1D421","U+1D422","U+1D423","U+1D424","U+1D425",
          "U+1D426","U+1D427","U+1D428","U+1D429","U+1D42A","U+1D42B",
          "U+1D42C","U+1D42D","U+1D42E","U+1D42F","U+1D430","U+1D431",
          "U+1D432","U+1D433","U+1D434","U+1D435","U+1D436","U+1D437",
          "U+1D438","U+1D439","U+1D43A","U+1D43B","U+1D43C","U+1D43D",
          "U+1D43E","U+1D43F","U+1D440","U+1D441","U+1D442","U+1D443",
          "U+1D444","U+1D445","U+1D446","U+1D447","U+1D448","U+1D449",
          "U+1D44A","U+1D44B","U+1D44C","U+1D44D","U+1D44E","U+1D44F",
          "U+1D450","U+1D451","U+1D452","U+1D453","U+1D454","U+1D456",
          "U+1D457","U+1D458","U+1D459","U+1D45A","U+1D45B","U+1D45C",
          "U+1D45D","U+1D45E","U+1D45F","U+1D460","U+1D461","U+1D462",
          "U+1D463","U+1D464","U+1D465","U+1D466","U+1D467","U+1D468",
          "U+1D469","U+1D46A","U+1D46B","U+1D46C","U+1D46D","U+1D46E",
          "U+1D46F","U+1D470","U+1D471","U+1D472","U+1D473","U+1D474",
          "U+1D475","U+1D476","U+1D477","U+1D478","U+1D479","U+1D47A",
          "U+1D47B","U+1D47C","U+1D47D","U+1D47E","U+1D47F","U+1D480",
          "U+1D481","U+1D482","U+1D483","U+1D484","U+1D485","U+1D486",
          "U+1D487","U+1D488","U+1D489","U+1D48A","U+1D48B","U+1D48C",
          "U+1D48D","U+1D48E","U+1D48F","U+1D490","U+1D491","U+1D492",
          "U+1D493","U+1D494","U+1D495","U+1D496","U+1D497","U+1D498",
          "U+1D499","U+1D49A","U+1D49B","U+1D49C","U+1D49E","U+1D49F",
          "U+1D4A2","U+1D4A5","U+1D4A6","U+1D4A9","U+1D4AA","U+1D4AB",
          "U+1D4AC","U+1D4AE","U+1D4AF","U+1D4B0","U+1D4B1","U+1D4B2",
          "U+1D4B3","U+1D4B4","U+1D4B5","U+1D4B6","U+1D4B7","U+1D4B8",
          "U+1D4B9","U+1D4BB","U+1D4BD","U+1D4BE","U+1D4BF","U+1D4C0",
          "U+1D4C1","U+1D4C2","U+1D4C3","U+1D4C5","U+1D4C6","U+1D4C7",
          "U+1D4C8","U+1D4C9","U+1D4CA","U+1D4CB","U+1D4CC","U+1D4CD",
          "U+1D4CE","U+1D4CF","U+1D4D0","U+1D4D1","U+1D4D2","U+1D4D3",
          "U+1D4D4","U+1D4D5","U+1D4D6","U+1D4D7","U+1D4D8","U+1D4D9",
          "U+1D4DA","U+1D4DB","U+1D4DC","U+1D4DD","U+1D4DE","U+1D4DF",
          "U+1D4E0","U+1D4E1","U+1D4E2","U+1D4E3","U+1D4E4","U+1D4E5",
          "U+1D4E6","U+1D4E7","U+1D4E8","U+1D4E9","U+1D4EA","U+1D4EB",
          "U+1D4EC","U+1D4ED","U+1D4EE","U+1D4EF","U+1D4F0","U+1D4F1",
          "U+1D4F2","U+1D4F3","U+1D4F4","U+1D4F5","U+1D4F6","U+1D4F7",
          "U+1D4F8","U+1D4F9","U+1D4FA","U+1D4FB","U+1D4FC","U+1D4FD",
          "U+1D4FE","U+1D4FF","U+1D500","U+1D501","U+1D502","U+1D503",
          "U+1D504","U+1D505","U+1D507","U+1D508","U+1D509","U+1D50A",
          "U+1D50D","U+1D50E","U+1D50F","U+1D510","U+1D511","U+1D512",
          "U+1D513","U+1D514","U+1D516","U+1D517","U+1D518","U+1D519",
          "U+1D51A","U+1D51B","U+1D51C","U+1D51E","U+1D51F","U+1D520",
          "U+1D521","U+1D522","U+1D523","U+1D524","U+1D525","U+1D526",
          "U+1D527","U+1D528","U+1D529","U+1D52A","U+1D52B","U+1D52C",
          "U+1D52D","U+1D52E","U+1D52F","U+1D530","U+1D531","U+1D532",
          "U+1D533","U+1D534","U+1D535","U+1D536","U+1D537","U+1D538",
          "U+1D539","U+1D53B","U+1D53C","U+1D53D","U+1D53E","U+1D540",
          "U+1D541","U+1D542","U+1D543","U+1D544","U+1D546","U+1D54A",
          "U+1D54B","U+1D54C","U+1D54D","U+1D54E","U+1D54F","U+1D550",
          "U+1D552","U+1D553","U+1D554","U+1D555","U+1D556","U+1D557",
          "U+1D558","U+1D559","U+1D55A","U+1D55B","U+1D55C","U+1D55D",
          "U+1D55E","U+1D55F","U+1D560","U+1D561","U+1D562","U+1D563",
          "U+1D564","U+1D565","U+1D566","U+1D567","U+1D568","U+1D569",
          "U+1D56A","U+1D56B","U+1D56C","U+1D56D","U+1D56E","U+1D56F",
          "U+1D570","U+1D571","U+1D572","U+1D573","U+1D574","U+1D575",
          "U+1D576","U+1D577","U+1D578","U+1D579","U+1D57A","U+1D57B",
          "U+1D57C","U+1D57D","U+1D57E","U+1D57F","U+1D580","U+1D581",
          "U+1D582","U+1D583","U+1D584","U+1D585","U+1D586","U+1D587",
          "U+1D588","U+1D589","U+1D58A","U+1D58B","U+1D58C","U+1D58D",
          "U+1D58E","U+1D58F","U+1D590","U+1D591","U+1D592","U+1D593",
          "U+1D594","U+1D595","U+1D596","U+1D597","U+1D598","U+1D599",
          "U+1D59A","U+1D59B","U+1D59C","U+1D59D","U+1D59E","U+1D59F",
          "U+1D5A0","U+1D5A1","U+1D5A2","U+1D5A3","U+1D5A4","U+1D5A5",
          "U+1D5A6","U+1D5A7","U+1D5A8","U+1D5A9","U+1D5AA","U+1D5AB",
          "U+1D5AC","U+1D5AD","U+1D5AE","U+1D5AF","U+1D5B0","U+1D5B1",
          "U+1D5B2","U+1D5B3","U+1D5B4","U+1D5B5","U+1D5B6","U+1D5B7",
          "U+1D5B8","U+1D5B9","U+1D5BA","U+1D5BB","U+1D5BC","U+1D5BD",
          "U+1D5BE","U+1D5BF","U+1D5C0","U+1D5C1","U+1D5C2","U+1D5C3",
          "U+1D5C4","U+1D5C5","U+1D5C6","U+1D5C7","U+1D5C8","U+1D5C9",
          "U+1D5CA","U+1D5CB","U+1D5CC","U+1D5CD","U+1D5CE","U+1D5CF",
          "U+1D5D0","U+1D5D1","U+1D5D2","U+1D5D3","U+1D5D4","U+1D5D5",
          "U+1D5D6","U+1D5D7","U+1D5D8","U+1D5D9","U+1D5DA","U+1D5DB",
          "U+1D5DC","U+1D5DD","U+1D5DE","U+1D5DF","U+1D5E0","U+1D5E1",
          "U+1D5E2","U+1D5E3","U+1D5E4","U+1D5E5","U+1D5E6","U+1D5E7",
          "U+1D5E8","U+1D5E9","U+1D5EA","U+1D5EB","U+1D5EC","U+1D5ED",
          "U+1D5EE","U+1D5EF","U+1D5F0","U+1D5F1","U+1D5F2","U+1D5F3",
          "U+1D5F4","U+1D5F5","U+1D5F6","U+1D5F7","U+1D5F8","U+1D5F9",
          "U+1D5FA","U+1D5FB","U+1D5FC","U+1D5FD","U+1D5FE","U+1D5FF",
          "U+1D600","U+1D601","U+1D602","U+1D603","U+1D604","U+1D605",
          "U+1D606","U+1D607","U+1D608","U+1D609","U+1D60A","U+1D60B",
          "U+1D60C","U+1D60D","U+1D60E","U+1D60F","U+1D610","U+1D611",
          "U+1D612","U+1D613","U+1D614","U+1D615","U+1D616","U+1D617",
          "U+1D618","U+1D619","U+1D61A","U+1D61B","U+1D61C","U+1D61D",
          "U+1D61E","U+1D61F","U+1D620","U+1D621","U+1D622","U+1D623",
          "U+1D624","U+1D625","U+1D626","U+1D627","U+1D628","U+1D629",
          "U+1D62A","U+1D62B","U+1D62C","U+1D62D","U+1D62E","U+1D62F",
          "U+1D630","U+1D631","U+1D632","U+1D633","U+1D634","U+1D635",
          "U+1D636","U+1D637","U+1D638","U+1D639","U+1D63A","U+1D63B",
          "U+1D63C","U+1D63D","U+1D63E","U+1D63F","U+1D640","U+1D641",
          "U+1D642","U+1D643","U+1D644","U+1D645","U+1D646","U+1D647",
          "U+1D648","U+1D649","U+1D64A","U+1D64B","U+1D64C","U+1D64D",
          "U+1D64E","U+1D64F","U+1D650","U+1D651","U+1D652","U+1D653",
          "U+1D654","U+1D655","U+1D656","U+1D657","U+1D658","U+1D659",
          "U+1D65A","U+1D65B","U+1D65C","U+1D65D","U+1D65E","U+1D65F",
          "U+1D660","U+1D661","U+1D662","U+1D663","U+1D664","U+1D665",
          "U+1D666","U+1D667","U+1D668","U+1D669","U+1D66A","U+1D66B",
          "U+1D66C","U+1D66D","U+1D66E","U+1D66F","U+1D670","U+1D671",
          "U+1D672","U+1D673","U+1D674","U+1D675","U+1D676","U+1D677",
          "U+1D678","U+1D679","U+1D67A","U+1D67B","U+1D67C","U+1D67D",
          "U+1D67E","U+1D67F","U+1D680","U+1D681","U+1D682","U+1D683",
          "U+1D684","U+1D685","U+1D686","U+1D687","U+1D688","U+1D689",
          "U+1D68A","U+1D68B","U+1D68C","U+1D68D","U+1D68E","U+1D68F",
          "U+1D690","U+1D691","U+1D692","U+1D693","U+1D694","U+1D695",
          "U+1D696","U+1D697","U+1D698","U+1D699","U+1D69A","U+1D69B",
          "U+1D69C","U+1D69D","U+1D69E","U+1D69F","U+1D6A0","U+1D6A1",
          "U+1D6A2","U+1D6A3","U+1D6A4","U+1D6A5","U+1D6A8","U+1D6A9",
          "U+1D6AA","U+1D6AB","U+1D6AC","U+1D6AD","U+1D6AE","U+1D6AF",
          "U+1D6B0","U+1D6B1","U+1D6B2","U+1D6B3","U+1D6B4","U+1D6B5",
          "U+1D6B6","U+1D6B7","U+1D6B8","U+1D6B9","U+1D6BA","U+1D6BB",
          "U+1D6BC","U+1D6BD","U+1D6BE","U+1D6BF","U+1D6C0","U+1D6C2",
          "U+1D6C3","U+1D6C4","U+1D6C5","U+1D6C6","U+1D6C7","U+1D6C8",
          "U+1D6C9","U+1D6CA","U+1D6CB","U+1D6CC","U+1D6CD","U+1D6CE",
          "U+1D6CF","U+1D6D0","U+1D6D1","U+1D6D2","U+1D6D3","U+1D6D4",
          "U+1D6D5","U+1D6D6","U+1D6D7","U+1D6D8","U+1D6D9","U+1D6DA",
          "U+1D6DC","U+1D6DD","U+1D6DE","U+1D6DF","U+1D6E0","U+1D6E1",
          "U+1D6E2","U+1D6E3","U+1D6E4","U+1D6E5","U+1D6E6","U+1D6E7",
          "U+1D6E8","U+1D6E9","U+1D6EA","U+1D6EB","U+1D6EC","U+1D6ED",
          "U+1D6EE","U+1D6EF","U+1D6F0","U+1D6F1","U+1D6F2","U+1D6F3",
          "U+1D6F4","U+1D6F5","U+1D6F6","U+1D6F7","U+1D6F8","U+1D6F9",
          "U+1D6FA","U+1D6FC","U+1D6FD","U+1D6FE","U+1D6FF","U+1D700",
          "U+1D701","U+1D702","U+1D703","U+1D704","U+1D705","U+1D706",
          "U+1D707","U+1D708","U+1D709","U+1D70A","U+1D70B","U+1D70C",
          "U+1D70D","U+1D70E","U+1D70F","U+1D710","U+1D711","U+1D712",
          "U+1D713","U+1D714","U+1D716","U+1D717","U+1D718","U+1D719",
          "U+1D71A","U+1D71B","U+1D71C","U+1D71D","U+1D71E","U+1D71F",
          "U+1D720","U+1D721","U+1D722","U+1D723","U+1D724","U+1D725",
          "U+1D726","U+1D727","U+1D728","U+1D729","U+1D72A","U+1D72B",
          "U+1D72C","U+1D72D","U+1D72E","U+1D72F","U+1D730","U+1D731",
          "U+1D732","U+1D733","U+1D734","U+1D736","U+1D737","U+1D738",
          "U+1D739","U+1D73A","U+1D73B","U+1D73C","U+1D73D","U+1D73E",
          "U+1D73F","U+1D740","U+1D741","U+1D742","U+1D743","U+1D744",
          "U+1D745","U+1D746","U+1D747","U+1D748","U+1D749","U+1D74A",
          "U+1D74B","U+1D74C","U+1D74D","U+1D74E","U+1D750","U+1D751",
          "U+1D752","U+1D753","U+1D754","U+1D755","U+1D756","U+1D757",
          "U+1D758","U+1D759","U+1D75A","U+1D75B","U+1D75C","U+1D75D",
          "U+1D75E","U+1D75F","U+1D760","U+1D761","U+1D762","U+1D763",
          "U+1D764","U+1D765","U+1D766","U+1D767","U+1D768","U+1D769",
          "U+1D76A","U+1D76B","U+1D76C","U+1D76D","U+1D76E","U+1D770",
          "U+1D771","U+1D772","U+1D773","U+1D774","U+1D775","U+1D776",
          "U+1D777","U+1D778","U+1D779","U+1D77A","U+1D77B","U+1D77C",
          "U+1D77D","U+1D77E","U+1D77F","U+1D780","U+1D781","U+1D782",
          "U+1D783","U+1D784","U+1D785","U+1D786","U+1D787","U+1D788",
          "U+1D78A","U+1D78B","U+1D78C","U+1D78D","U+1D78E","U+1D78F",
          "U+1D790","U+1D791","U+1D792","U+1D793","U+1D794","U+1D795",
          "U+1D796","U+1D797","U+1D798","U+1D799","U+1D79A","U+1D79B",
          "U+1D79C","U+1D79D","U+1D79E","U+1D79F","U+1D7A0","U+1D7A1",
          "U+1D7A2","U+1D7A3","U+1D7A4","U+1D7A5","U+1D7A6","U+1D7A7",
          "U+1D7A8","U+1D7AA","U+1D7AB","U+1D7AC","U+1D7AD","U+1D7AE",
          "U+1D7AF","U+1D7B0","U+1D7B1","U+1D7B2","U+1D7B3","U+1D7B4",
          "U+1D7B5","U+1D7B6","U+1D7B7","U+1D7B8","U+1D7B9","U+1D7BA",
          "U+1D7BB","U+1D7BC","U+1D7BD","U+1D7BE","U+1D7BF","U+1D7C0",
          "U+1D7C1","U+1D7C2","U+1D7C4","U+1D7C5","U+1D7C6","U+1D7C7",
          "U+1D7C8","U+1D7C9","U+1D7CA","U+1D7CB","U+1DF00","U+1DF01",
          "U+1DF02","U+1DF03","U+1DF04","U+1DF05","U+1DF06","U+1DF07",
          "U+1DF08","U+1DF09","U+1DF0B","U+1DF0C","U+1DF0D","U+1DF0E",
          "U+1DF0F","U+1DF10","U+1DF11","U+1DF12","U+1DF13","U+1DF14",
          "U+1DF15","U+1DF16","U+1DF17","U+1DF18","U+1DF19","U+1DF1A",
          "U+1DF1B","U+1DF1C","U+1DF1D","U+1DF1E","U+1DF25","U+1DF26",
          "U+1DF27","U+1DF28","U+1DF29","U+1DF2A","U+1E900","U+1E901",
          "U+1E902","U+1E903","U+1E904","U+1E905","U+1E906","U+1E907",
          "U+1E908","U+1E909","U+1E90A","U+1E90B","U+1E90C","U+1E90D",
          "U+1E90E","U+1E90F","U+1E910","U+1E911","U+1E912","U+1E913",
          "U+1E914","U+1E915","U+1E916","U+1E917","U+1E918","U+1E919",
          "U+1E91A","U+1E91B","U+1E91C","U+1E91D","U+1E91E","U+1E91F",
          "U+1E920","U+1E921","U+1E922","U+1E923","U+1E924","U+1E925",
          "U+1E926","U+1E927","U+1E928","U+1E929","U+1E92A","U+1E92B",
          "U+1E92C","U+1E92D","U+1E92E","U+1E92F","U+1E930","U+1E931",
          "U+1E932","U+1E933","U+1E934","U+1E935","U+1E936","U+1E937",
          "U+1E938","U+1E939","U+1E93A","U+1E93B","U+1E93C","U+1E93D",
          "U+1E93E","U+1E93F","U+1E940","U+1E941","U+1E942","U+1E943",
          "U+1F130","U+1F131","U+1F132","U+1F133","U+1F134","U+1F135",
          "U+1F136","U+1F137","U+1F138","U+1F139","U+1F13A","U+1F13B",
          "U+1F13C","U+1F13D","U+1F13E","U+1F13F","U+1F140","U+1F141",
          "U+1F142","U+1F143","U+1F144","U+1F145","U+1F146","U+1F147",
          "U+1F148","U+1F149","U+1F150","U+1F151","U+1F152","U+1F153",
          "U+1F154","U+1F155","U+1F156","U+1F157","U+1F158","U+1F159",
          "U+1F15A","U+1F15B","U+1F15C","U+1F15D","U+1F15E","U+1F15F",
          "U+1F160","U+1F161","U+1F162","U+1F163","U+1F164","U+1F165",
          "U+1F166","U+1F167","U+1F168","U+1F169","U+1F170","U+1F171",
          "U+1F172","U+1F173","U+1F174","U+1F175","U+1F176","U+1F177",
          "U+1F178","U+1F179","U+1F17A","U+1F17B","U+1F17C","U+1F17D",
          "U+1F17E","U+1F17F","U+1F180","U+1F181","U+1F182","U+1F183",
          "U+1F184","U+1F185","U+1F186","U+1F187","U+1F188","U+1F189"}

RECURSIVE CasedBefore(_, _)
\* the nearest character at or before position i that is not case-ignorable
\* is cased
CasedBefore(s, i) ==
  /\ i >= 1
  /\ IF s[i] \in CaseIgnorable THEN CasedBefore(s, i - 1) ELSE s[i] \in Cased

RECURSIVE CasedAfter(_, _)
\* the nearest character at or after position i that is not case-ignorable
\* is cased
CasedAfter(s, i) ==
  /\ i <= Len(s)
  /\ IF s[i] \in CaseIgnorable THEN CasedAfter(s, i + 1) ELSE s[i] \in Cased

\* Final_Sigma of the Unicode special casing: the capital sigma at position
\* i ends a word
FinalSigma(s, i) ==
  s[i] = "Σ" /\ CasedBefore(s, i - 1) /\ ~CasedAfter(s, i + 1)

\* the lower case of the character at position i: a final sigma or the lower
\* case of the character by itself
LowerSeq(s, i) ==
  IF FinalSigma(s, i) THEN <<"ς">> ELSE LowerChar(s[i])

RECURSIVE LowerFrom(_, _)
LowerFrom(s, i) ==
  IF i > Len(s) THEN <<>> ELSE LowerSeq(s, i) \o LowerFrom(s, i + 1)

\* String.prototype.toLowerCase
toLowerCase(s) == LowerFrom(s, 1)

RECURSIVE TrimStart(_)
TrimStart(s) ==
  IF s # <<>> /\ Head(s) \in WhiteSpace THEN TrimStart(Tail(s)) ELSE s

RECURSIVE TrimEnd(_)
TrimEnd(s) ==
  IF s # <<>> /\ s[Len(s)] \in WhiteSpace
  THEN TrimEnd(SubSeq(s, 1, Len(s) - 1))
  ELSE s

\* String.prototype.trim
trim(s) == TrimEnd(TrimStart(s))

IsDigit(c) == \E i \in 1..10 : DigitChars[i] = c

DigitVal(c) == (CHOOSE i \in 1..10 : DigitChars[i] = c) - 1

RECURSIVE DigitsOf(_)
\* decimal digits of a natural number, as Number.prototype.toString gives them
DigitsOf(n) ==
  IF n < 10 THEN <<DigitChars[n + 1]>>
  ELSE DigitsOf(n \div 10) \o <<DigitChars[(n % 10) + 1]>>

----------------------------------------------------------------------------
(* Natural numbers of any size                                             *)

\* A natural number is the sequence of its digits in base 2^15, least
\* significant first, without a most significant 0: <<>> is 0, <<0, 1>> is
\* 32768. A digit, a carry and their product stay within 32 bits.

Base == 32768

Max(a, b) == IF a >= b THEN a ELSE b

Min(a, b) == IF a <= b THEN a ELSE b

\* the natural number of the integer n, 0 <= n < 2^30
NatOf(n) ==
  IF n = 0 THEN <<>>
  ELSE IF n < Base THEN <<n>>
  ELSE <<n % Base, n \div Base>>

\* a without its most significant zeros
BNorm(a) ==
  IF \E i \in 1..Len(a) : a[i] # 0
  THEN SubSeq(a, 1, CHOOSE i \in 1..Len(a) :
                      a[i] # 0 /\ \A j \in (i + 1)..Len(a) : a[j] = 0)
  ELSE <<>>

\* digit i of a, 0 outside a
Limb(a, i) == IF i >= 1 /\ i <= Len(a) THEN a[i] ELSE 0

\* the number of binary digits of the digit n # 0
IntLen(n) == CHOOSE k \in 1..15 : 2 ^ (k - 1) <= n /\ n < 2 ^ k

\* the number of binary digits of a
BitLen(a) == IF a = <<>> THEN 0 ELSE 15 * (Len(a) - 1) + IntLen(a[Len(a)])

\* binary digit i of a, counted from 1; 0 outside a
Bit(a, i) ==
  IF i < 1 THEN 0
  ELSE (Limb(a, ((i - 1) \div 15) + 1) \div (2 ^ ((i - 1) % 15))) % 2

\* the digits d of a sum with the carry c out of them, below the digits and
\* the carry of the rest of the sum
JoinSum(low, up) == [d |-> low.d \o up.d, c |-> up.c]

RECURSIVE BLinRange(_, _, _, _, _, _, _)
RECURSIVE BLinUpper(_, _, _, _, _, _, _)
\* digits lo..hi of a * k + s * b + c, and the carry out of them, for a
\* carry c into digit lo; the range is halved until it is one digit
BLinRange(a, k, b, s, lo, hi, c) ==
  IF lo > hi THEN [d |-> <<>>, c |-> c]
  ELSE IF lo = hi
  THEN [d |-> <<(Limb(a, lo) * k + s * Limb(b, lo) + c) % Base>>,
        c |-> (Limb(a, lo) * k + s * Limb(b, lo) + c) \div Base]
  ELSE BLinUpper(a, k, b, s, ((lo + hi) \div 2) + 1, hi,
                 BLinRange(a, k, b, s, lo, (lo + hi) \div 2, c))

BLinUpper(a, k, b, s, lo, hi, low) ==
  JoinSum(low, BLinRange(a, k, b, s, lo, hi, low.c))

\* the natural number of the digits and the last carry of a sum
WithCarry(sum) == BNorm(IF sum.c > 0 THEN Append(sum.d, sum.c) ELSE sum.d)

\* a + b
BAdd(a, b) == WithCarry(BLinRange(a, 1, b, 1, 1, Max(Len(a), Len(b)), 0))

\* a - b for a >= b
BSub(a, b) == WithCarry(BLinRange(a, 1, b, -1, 1, Len(a), 0))

\* a * k + c for integers 0 < k <= 2^15 and 0 <= c < 2^15
BMulAdd(a, k, c) == WithCarry(BLinRange(a, k, <<>>, 0, 1, Len(a), c))

\* the most significant digit in which a and b of one length differ
TopDiff(a, b) ==
  CHOOSE i \in 1..Len(a) : a[i] # b[i] /\ \A j \in (i + 1)..Len(a) : a[j] = b[j]

\* -1, 0, 1 as a < b, a = b, a > b
BCmp(a, b) ==
  IF Len(a) # Len(b) THEN (IF Len(a) > Len(b) THEN 1 ELSE -1)
  ELSE IF a = b THEN 0
  ELSE IF a[TopDiff(a, b)] > b[TopDiff(a, b)] THEN 1
  ELSE -1

\* a * 2^(15 * q + r) for r < 15
BShlBy(a, q, r) ==
  BNorm([i \in 1..(Len(a) + q + 1) |->
           IF i <= q THEN 0
           ELSE ((Limb(a, i - q) * (2 ^ r)) % Base)
                + ((Limb(a, i - q - 1) * (2 ^ r)) \div Base)])

\* a * 2^k
BShl(a, k) == IF k = 0 THEN a ELSE BShlBy(a, k \div 15, k % 15)

\* floor(a / 2^(15 * q + r)) for r < 15
BShrBy(a, q, r) ==
  BNorm([i \in 1..Max(Len(a) - q, 0) |->
           (Limb(a, i + q) \div (2 ^ r))
           + ((Limb(a, i + q + 1) % (2 ^ r)) * (2 ^ (15 - r)))])

\* floor(a / 2^k)
BShr(a, k) == IF k = 0 THEN a ELSE BShrBy(a, k \div 15, k % 15)

\* a mod 2^k is not 0
AnyLow(a, k) ==
  \E i \in 1..Len(a) :
    \/ i <= k \div 15 /\ a[i] # 0
    \/ i = (k \div 15) + 1 /\ a[i] % (2 ^ (k % 15)) # 0

\* the number of least significant binary zeros of the digit n # 0
IntLowZeros(n) == CHOOSE k \in 0..14 : n % (2 ^ k) = 0 /\ n % (2 ^ (k + 1)) # 0

\* the position of the least significant digit of a # 0 that is not 0
LowLimb(a) == CHOOSE i \in 1..Len(a) : a[i] # 0 /\ \A j \in 1..(i - 1) : a[j] = 0

\* the number of least significant binary zeros of a # 0
LowZeros(a) == 15 * (LowLimb(a) - 1) + IntLowZeros(a[LowLimb(a)])

\* the quotient digits of the upper digits, which are divided first, before
\* those of the lower digits
JoinQuot(up, low) == [q |-> up.q \o low.q, r |-> low.r]

RECURSIVE BDivRange(_, _, _, _, _)
RECURSIVE BDivLower(_, _, _, _, _)
\* short division of digits hi down to lo of a by k: their quotient digits,
\* most significant first, and the remainder, for the remainder rem of the digits above; the range
\* is halved until it is one digit
BDivRange(a, k, lo, hi, rem) ==
  IF lo > hi THEN [q |-> <<>>, r |-> rem]
  ELSE IF lo = hi
  THEN [q |-> <<(rem * Base + a[lo]) \div k>>, r |-> (rem * Base + a[lo]) % k]
  ELSE BDivLower(a, k, lo, (lo + hi) \div 2,
                 BDivRange(a, k, ((lo + hi) \div 2) + 1, hi, rem))

BDivLower(a, k, lo, hi, up) == JoinQuot(up, BDivRange(a, k, lo, hi, up.r))

\* the digits s in the opposite order
Reversed(s) == [i \in 1..Len(s) |-> s[Len(s) + 1 - i]]

\* the natural number of a quotient, with its remainder
Quot(qr) == [q |-> BNorm(Reversed(qr.q)), r |-> qr.r]

\* quotient and remainder of a by the integer k, 0 < k <= 2^15
BDivSmall(a, k) == Quot(BDivRange(a, k, 1, Len(a), 0))

RECURSIVE BTimesPow5(_, _)
RECURSIVE BTimesRest(_, _)
\* a * 5^k, the power halved until it is at most 5^6
BTimesPow5(a, k) ==
  IF k <= 6 THEN BMulAdd(a, 5 ^ k, 0)
  ELSE BTimesRest(BTimesPow5(a, k \div 2), k - (k \div 2))

BTimesRest(h, k) == IF h = <<>> THEN <<>> ELSE BTimesPow5(h, k)

\* a quotient and whether something was left over, here or before (sticky)
WithSticky(qr, sticky) ==
  [q |-> qr.q, r |-> IF sticky \/ qr.r # 0 THEN 1 ELSE 0]

RECURSIVE BOverPow5(_, _, _)
RECURSIVE BOverRest(_, _)
\* floor(a / 5^k), and in r whether something was left over, here or before
\* (sticky); the power is halved until it is at most 5^6
BOverPow5(a, k, sticky) ==
  IF k <= 6 THEN WithSticky(BDivSmall(a, 5 ^ k), sticky)
  ELSE BOverRest(BOverPow5(a, k \div 2, sticky), k - (k \div 2))

BOverRest(h, k) == IF h.r = 0 THEN BOverPow5(h.q, k, FALSE) ELSE BOverPow5(h.q, k, TRUE)

----------------------------------------------------------------------------
(* Numbers                                                                 *)

\* A finite IEEE-754 double is [t |-> "num", neg, m, e]: the value
\* (-1)^neg * m * 2^e with m an odd natural number below 2^53, or m = 0
\* with e = 0 for the two zeros 0 and -0. Each finite double has one such
\* record.

Zero == [t |-> "num", neg |-> FALSE, m |-> <<>>, e |-> 0]

\* -0
NegZero == [t |-> "num", neg |-> TRUE, m |-> <<>>, e |-> 0]


NaN == [t |-> "nan"]

Str(s) == [t |-> "str", s |-> s]

\* Infinity and -Infinity
Infinity == [t |-> "inf", neg |-> FALSE]

NegInfinity == [t |-> "inf", neg |-> TRUE]

IsNum(v) == v.t = "num"

IsInf(v) == v.t = "inf"

\* x is 0 or -0
IsZero(x) == IsNum(x) /\ x.m = <<>>

\* the key of x in a Set of numbers: -0 is kept as 0
SameValueZero(x) == IF IsZero(x) THEN Zero ELSE x

\* the double of value (-1)^neg * m * 2^e for a natural m below 2^53, the
\* infinity when it is 2^1024 or more, the zero of that sign when m is 0
Pack(neg, m, e) ==
  IF m = <<>> THEN (IF neg THEN NegZero ELSE Zero)
  ELSE IF e + BitLen(m) > 1024 THEN [t |-> "inf", neg |-> neg]
  ELSE [t |-> "num", neg |-> neg, m |-> BShr(m, LowZeros(m)), e |-> e + LowZeros(m)]

\* m with its k least significant digits rounded away, ties to even; sticky
\* tells that the exact value has non-zero digits below those of m
RoundedAway(m, k, sticky) ==
  IF /\ Bit(m, k) = 1
     /\ (sticky \/ AnyLow(m, k - 1) \/ Bit(m, k + 1) = 1)
  THEN BAdd(BShr(m, k), <<1>>)
  ELSE BShr(m, k)

\* the digits to round away from m * 2^e: a double holds 53 of them, and
\* none below 2^-1074
ExcessDigits(m, e) == Max(BitLen(m) - 53, -1074 - e)

\* the double nearest to (-1)^neg * (m * 2^e + a fraction of 2^e that is
\* not 0 exactly when sticky), ties to even
Round(neg, m, e, sticky) ==
  IF ExcessDigits(m, e) <= 0 THEN Pack(neg, m, e)
  ELSE Pack(neg, RoundedAway(m, ExcessDigits(m, e), sticky), e + ExcessDigits(m, e))

\* binary digits by which a is shifted before it is divided by an integer
\* up to 2^15, so that the quotient has more digits than a double holds
DivShift(a) == Max(0, 72 - BitLen(a))

\* the double nearest to (-1)^neg * (qr.q + a fraction that is not 0
\* exactly when the remainder qr.r is not 0) * 2^e
RoundQuotient(neg, qr, e) == Round(neg, qr.q, e, qr.r # 0)

\* the double nearest to (-1)^neg * a * 2^e / k for a natural a and an
\* integer k, 0 < k <= 2^15
Quotient(neg, a, e, k) ==
  IF a = <<>> THEN Pack(neg, a, 0)
  ELSE RoundQuotient(neg, BDivSmall(BShl(a, DivShift(a)), k), e - DivShift(a))

\* the double nearest to the rational n/d, for integers |n| < 2^30 and
\* 0 < d <= 2^15
Num(n, d) == Quotient(n < 0, NatOf(IF n < 0 THEN -n ELSE n), 0, d)

\* the sum of two finite doubles whose magnitudes are a * 2^e and b * 2^e;
\* opposite numbers add up to 0
AddAligned(xneg, a, yneg, b, e) ==
  IF xneg = yneg THEN Round(xneg, BAdd(a, b), e, FALSE)
  ELSE IF BCmp(a, b) = 0 THEN Zero
  ELSE IF BCmp(a, b) > 0 THEN Round(xneg, BSub(a, b), e, FALSE)
  ELSE Round(yneg, BSub(b, a), e, FALSE)

\* the position above the most significant binary digit of a finite double
TopOf(x) == x.e + BitLen(x.m)

\* y as it counts in a sum with a double whose most significant digit is
\* below position top: when y lies more than 64 binary digits below, it
\* decides only the rounding, as any number of its sign below those digits
Absorbed(y, top) ==
  IF top - TopOf(y) > 64
  THEN [y EXCEPT !.m = <<1>>, !.e = top - 65]
  ELSE y

\* the smaller exponent of two finite doubles
CommonExp(x, y) == Min(x.e, y.e)

\* the sum of two finite doubles, rounded
AddFinite(x, y) ==
  AddAligned(x.neg, BShl(x.m, x.e - CommonExp(x, y)),
             y.neg, BShl(y.m, y.e - CommonExp(x, y)),
             CommonExp(x, y))

\* x + y: NaN absorbs, opposite infinities give NaN, an infinity absorbs
\* every finite number, two zeros give -0 only when both are -0, and the
\* sum of two finite doubles is rounded
NumAdd(x, y) ==
  IF x.t = "nan" \/ y.t = "nan" THEN NaN
  ELSE IF IsInf(x) THEN (IF IsInf(y) /\ y.neg # x.neg THEN NaN ELSE x)
  ELSE IF IsInf(y) THEN y
  ELSE IF x.m = <<>> /\ y.m = <<>> THEN (IF x.neg /\ y.neg THEN NegZero ELSE Zero)
  ELSE IF x.m = <<>> THEN y
  ELSE IF y.m = <<>> THEN x
  ELSE AddFinite(Absorbed(x, TopOf(y)), Absorbed(y, TopOf(x)))

\* x / k for an integer k, 0 < k <= 2^15, rounded
NumDivInt(x, k) ==
  IF IsNum(x) THEN Quotient(x.neg, x.m, x.e, k) ELSE x

\* x * k for an integer k, 0 < k <= 2^15, rounded
NumTimesInt(x, k) ==
  IF IsNum(x) /\ x.m # <<>>
  THEN Round(x.neg, BMulAdd(x.m, k, 0), x.e, FALSE)
  ELSE x

\* -1, 0, 1 as |x| < |y|, |x| = |y|, |x| > |y| for finite doubles
MagCmp(x, y) ==
  IF x.m = <<>> \/ y.m = <<>>
  THEN (IF x.m = y.m THEN 0 ELSE IF x.m = <<>> THEN -1 ELSE 1)
  ELSE IF TopOf(x) # TopOf(y)
  THEN (IF TopOf(x) > TopOf(y) THEN 1 ELSE -1)
  ELSE BCmp(BShl(x.m, x.e - CommonExp(x, y)), BShl(y.m, y.e - CommonExp(x, y)))

\* x < y; false when either side is NaN, and for 0 and -0
NumLess(x, y) ==
  IF x.t = "nan" \/ y.t = "nan" THEN FALSE
  ELSE IF IsZero(x) /\ IsZero(y) THEN FALSE
  ELSE IF IsInf(x) THEN x.neg /\ y # x
  ELSE IF IsInf(y) THEN ~y.neg
  ELSE IF x.neg # y.neg THEN x.neg
  ELSE IF x.neg THEN MagCmp(x, y) > 0
  ELSE MagCmp(x, y) < 0

\* x <= y; false when either side is NaN
NumLeq(x, y) ==
  /\ x.t # "nan"
  /\ y.t # "nan"
  /\ (SameValueZero(x) = SameValueZero(y) \/ NumLess(x, y))

RECURSIVE DigitsVal(_)
DigitsVal(s) ==
  IF s = <<>> THEN 0
  ELSE 10 * DigitsVal(SubSeq(s, 1, Len(s) - 1)) + DigitVal(s[Len(s)])

AllDigits(s) == \A i \in 1..Len(s) : IsDigit(s[i])

\* up * 10^n + low
DecimalJoin(up, n, low) ==
  IF up = <<>> THEN low ELSE BAdd(BShl(BTimesPow5(up, n), n), low)

RECURSIVE BigOfDigits(_)
\* the natural number with the decimal digits s: up to four digits are an
\* integer, more are the upper half times a power of 10 plus the lower half
BigOfDigits(s) ==
  IF Len(s) <= 4 THEN NatOf(DigitsVal(s))
  ELSE DecimalJoin(BigOfDigits(SubSeq(s, 1, Len(s) \div 2)),
                   Len(s) - (Len(s) \div 2),
                   BigOfDigits(SubSeq(s, (Len(s) \div 2) + 1, Len(s))))

\* s without its leading "0"s
StripZeros(s) ==
  IF \E i \in 1..Len(s) : s[i] # "0"
  THEN SubSeq(s, CHOOSE i \in 1..Len(s) : s[i] # "0" /\ \A j \in 1..(i - 1) : s[j] = "0",
              Len(s))
  ELSE <<>>

\* the double nearest to n * 10^e10 for a natural n # 0 of len decimal
\* digits; beyond 10^310 every value rounds to Infinity and below 10^-330
\* to 0
ScaledDecimal(n, len, e10) ==
  IF len + e10 > 310 THEN Infinity
  ELSE IF len + e10 < -330 THEN Zero
  ELSE IF e10 >= 0 THEN Round(FALSE, BTimesPow5(n, e10), e10, FALSE)
  ELSE RoundQuotient(FALSE, BOverPow5(BShl(n, 60 + 3 * (-e10)), -e10, FALSE),
                     -(60 + 3 * (-e10)) + e10)

\* the value of the natural n of len decimal digits times 10^e10
ScaledNatural(n, len, e10) ==
  IF n = <<>> THEN Zero ELSE ScaledDecimal(n, len, e10)

\* s without its trailing "0"s
StripTrailingZeros(s) ==
  IF \E i \in 1..Len(s) : s[i] # "0"
  THEN SubSeq(s, 1, CHOOSE i \in 1..Len(s) :
                      s[i] # "0" /\ \A j \in (i + 1)..Len(s) : s[j] = "0")
  ELSE <<>>

\* The digits that decide the double nearest to the decimal with the digits
\* ds, which neither start nor end with "0": no double and no midpoint of two
\* doubles has more than 768 significant digits, so the digits after the
\* first 800 count as one digit that is not 0.
Significant(ds) ==
  IF Len(ds) <= 800 THEN ds ELSE SubSeq(ds, 1, 800) \o <<"1">>

\* the significant digits of the decimal digits ds
SignificantDigits(ds) == Significant(StripTrailingZeros(StripZeros(ds)))

\* the value of the decimal digits ds times 10^e10: the significant digits
\* times the power of 10 of the last of them
DecimalValue(ds, e10) ==
  ScaledNatural(BigOfDigits(SignificantDigits(ds)),
                Len(SignificantDigits(ds)),
                e10 + Len(StripZeros(ds)) - Len(SignificantDigits(ds)))

\* the value of <integer part>.<fraction part> times 10^e10
DecimalParts(ip, fp, e10) ==
  IF AllDigits(ip \o fp) /\ Len(ip) + Len(fp) > 0
  THEN DecimalValue(ip \o fp, e10 - Len(fp))
  ELSE NaN

\* DecimalDigits with or without one ".", times 10^e10: "12", "1.5", "1.",
\* ".5"
Mantissa(s, e10) ==
  IF \E i \in 1..Len(s) : s[i] = "."
  THEN DecimalParts(SubSeq(s, 1, (CHOOSE i \in 1..Len(s) : s[i] = ".") - 1),
                    SubSeq(s, (CHOOSE i \in 1..Len(s) : s[i] = ".") + 1, Len(s)),
                    e10)
  ELSE DecimalParts(s, <<>>, e10)

\* the digits of an exponent as an integer, cap when it is cap or more
ExponentVal(ds, cap) ==
  IF Len(StripZeros(ds)) > 9 THEN cap
  ELSE Min(DigitsVal(StripZeros(ds)), cap)

\* ExponentPart after its "e": an optional sign and digits
IsExponent(x) ==
  IF x # <<>> /\ Head(x) \in {"+", "-"}
  THEN Tail(x) # <<>> /\ AllDigits(Tail(x))
  ELSE x # <<>> /\ AllDigits(x)

\* the exponent x as an integer between -cap and cap
SignedExponent(x, cap) ==
  IF Head(x) = "-" THEN -ExponentVal(Tail(x), cap)
  ELSE IF Head(x) = "+" THEN ExponentVal(Tail(x), cap)
  ELSE ExponentVal(x, cap)

\* the literal with its exponent indicator at position p; an exponent of
\* 1000 more than the literal has characters, or beyond, gives the same
\* value as that one: Infinity or 0
WithExponentAt(s, p) ==
  IF IsExponent(SubSeq(s, p + 1, Len(s)))
  THEN Mantissa(SubSeq(s, 1, p - 1),
                SignedExponent(SubSeq(s, p + 1, Len(s)), Len(s) + 1000))
  ELSE NaN

\* StrUnsignedDecimalLiteral: "Infinity", or decimal digits with an optional
\* "." and an optional exponent
UnsignedDecimal(s) ==
  IF s = <<"I","n","f","i","n","i","t","y">> THEN Infinity
  ELSE IF \E i \in 1..Len(s) : s[i] \in {"e", "E"}
  THEN WithExponentAt(s, CHOOSE i \in 1..Len(s) :
                           s[i] \in {"e", "E"} /\ \A j \in 1..(i - 1) : s[j] \notin {"e", "E"})
  ELSE Mantissa(s, 0)

\* -m for a number, NaN for NaN
Negated(m) ==
  IF IsNum(m) THEN [m EXCEPT !.neg = ~m.neg]
  ELSE IF IsInf(m) THEN [t |-> "inf", neg |-> ~m.neg]
  ELSE NaN

HexChars == <<"0","1","2","3","4","5","6","7","8","9","a","b","c","d","e","f">>

HexUpperChars == <<"A","B","C","D","E","F">>

\* the value of a digit of a radix up to 16, 16 for any other character
RadixDigitVal(c) ==
  IF \E i \in 1..16 : HexChars[i] = c
  THEN (CHOOSE i \in 1..16 : HexChars[i] = c) - 1
  ELSE IF \E i \in 1..6 : HexUpperChars[i] = c
  THEN (CHOOSE i \in 1..6 : HexUpperChars[i] = c) + 9
  ELSE 16

\* up * 2^n + low
BinaryJoin(up, n, low) == IF up = <<>> THEN low ELSE BAdd(BShl(up, n), low)

RECURSIVE BigOfRadixDigits(_, _)
\* the natural number with the digits s of radix 2^k: one digit is an
\* integer, more are the upper half shifted above the lower half
BigOfRadixDigits(s, k) ==
  IF Len(s) = 1 THEN NatOf(RadixDigitVal(s[1]))
  ELSE BinaryJoin(BigOfRadixDigits(SubSeq(s, 1, Len(s) \div 2), k),
                  k * (Len(s) - (Len(s) \div 2)),
                  BigOfRadixDigits(SubSeq(s, (Len(s) \div 2) + 1, Len(s)), k))

\* the digits after the prefix of a NonDecimalIntegerLiteral of radix 2^k
RadixDigits(ds, k) ==
  IF ds # <<>> /\ \A i \in 1..Len(ds) : RadixDigitVal(ds[i]) < 2 ^ k
  THEN Round(FALSE, BigOfRadixDigits(ds, k), 0, FALSE)
  ELSE NaN

\* the radix of the prefix 0b, 0o, 0x (either case) as a power of 2, 0
\* without such a prefix
RadixPrefix(u) ==
  IF Len(u) < 2 \/ u[1] # "0" THEN 0
  ELSE IF u[2] \in {"b", "B"} THEN 1
  ELSE IF u[2] \in {"o", "O"} THEN 3
  ELSE IF u[2] \in {"x", "X"} THEN 4
  ELSE 0

\* StrNumericLiteral: a decimal literal with an optional sign, or an
\* unsigned binary, octal or hexadecimal integer literal
SignedDecimal(u) ==
  IF u = <<>> THEN Zero
  ELSE IF RadixPrefix(u) # 0 THEN RadixDigits(SubSeq(u, 3, Len(u)), RadixPrefix(u))
  ELSE IF Head(u) = "-" THEN Negated(UnsignedDecimal(Tail(u)))
  ELSE UnsignedDecimal(IF Head(u) = "+" THEN Tail(u) ELSE u)

\* Number(string): white space is trimmed, the empty string is 0, a numeric
\* literal is the double nearest to its value, anything else is NaN
StringToNumber(s) == SignedDecimal(trim(s))

\* Number(v) for a cell value (string | number); an inherited function or
\* object is NaN
Number(v) ==
  IF v.t = "str" THEN StringToNumber(v.s)
  ELSE IF v.t = "other" THEN NaN
  ELSE v

\* isNaN(x)
isNaN(x) == x.t = "nan"

\* the literal 0.1
Tenth == StringToNumber(<<"0", ".", "1">>)

----------------------------------------------------------------------------
(* Optional values                                                         *)

None == [def |-> FALSE]

Some(x) == [def |-> TRUE, v |-> x]

----------------------------------------------------------------------------
(* Application configuration (src/lib/config/appConfig.ts)                 *)

\* DATA_LIMITS.maxRows
maxRows == 500000

\* DATA_LIMITS.maxColumns
maxColumns == 500

\* defaultIngestionConfig.previewLimit
DefaultPreviewLimit == 50

----------------------------------------------------------------------------
(* Parser (parser.ts)                                                      *)

Range(f) == {f[i] : i \in DOMAIN f}

\* the placeholder tokens, PLACEHOLDERS in generatePreview and in finalize
PLACEHOLDERS ==
  { <<"n","a">>, <<"n","/","a">>, <<"n","u","l","l">>, <<"n","o","n","e">>,
    <<"n","i","l">>, <<"n","a","n">>, <<"?">>, <<"-">>,
    <<"m","i","s","s","i","n","g">>, <<"u","n","k","n","o","w","n">>,
    <<".">> }

\* Papa.parse(text, {header: false, skipEmptyLines: true}).data
PapaRows(text) == text.rows

\* Papa.parse(...).errors.length > 0
PapaErrors(text) == text.errors

\* !rawText
IsEmptyText(text) == text.empty

\* r[idx] ?? '' (idx is 1-based here)
CellAt(r, i) == IF i <= Len(r) THEN r[i] ELSE <<>>

\* (h ?? '').toString().trim() || 'col'
BaseName(h) == IF trim(h) = <<>> THEN <<"c","o","l">> ELSE trim(h)

\* seen.get(base) || 0 at the time header cell i is visited
SeenCount(bases, i) == Cardinality({j \in 1..(i - 1) : bases[j] = bases[i]})

\* variant: the first duplicate is numbered 2
UniqueName_FromTwo(base, count) ==
  IF count = 0 THEN base ELSE base \o <<"_">> \o DigitsOf(count + 1)

\* count === 0 ? base : `${base}_${count}`
UniqueName(base, count) ==
  IF count = 0 THEN base ELSE base \o <<"_">> \o DigitsOf(count)

\* the unique-column-naming loop of generatePreview and parseCSVText
ResolveColumns(headerValues) ==
  LET bases == [i \in 1..Len(headerValues) |-> BaseName(headerValues[i])]
  IN  [i \in 1..Len(headerValues) |-> UniqueName(bases[i], SeenCount(bases, i))]

\* the key whose assignment on a plain object stores nothing when the value
\* is not an object: obj['__proto__'] = 'x' leaves obj without that key
ProtoKey == <<"_","_","p","r","o","t","o","_","_">>

\* the names a plain object inherits from Object.prototype
ObjectPrototypeNames ==
  { <<"c","o","n","s","t","r","u","c","t","o","r">>,
    <<"h","a","s","O","w","n","P","r","o","p","e","r","t","y">>,
    <<"i","s","P","r","o","t","o","t","y","p","e","O","f">>,
    <<"p","r","o","p","e","r","t","y","I","s","E","n","u","m","e","r","a","b","l","e">>,
    <<"t","o","L","o","c","a","l","e","S","t","r","i","n","g">>,
    <<"t","o","S","t","r","i","n","g">>,
    <<"v","a","l","u","e","O","f">>,
    <<"_","_","d","e","f","i","n","e","G","e","t","t","e","r","_","_">>,
    <<"_","_","d","e","f","i","n","e","S","e","t","t","e","r","_","_">>,
    <<"_","_","l","o","o","k","u","p","G","e","t","t","e","r","_","_">>,
    <<"_","_","l","o","o","k","u","p","S","e","t","t","e","r","_","_">>,
    <<"_","_","p","r","o","t","o","_","_">> }

\* the member of Object.prototype a plain object yields for the name c that
\* is not a key of its own: a function, or Object.prototype for __proto__
Inherited(c) == [t |-> "other", what |-> c]

\* v.toString() of an inherited member
MemberString(c) ==
  IF c = ProtoKey THEN <<"[","o","b","j","e","c","t"," ","O","b","j","e","c","t","]">>
  ELSE <<"f","u","n","c","t","i","o","n"," ">>
       \o (IF c = <<"c","o","n","s","t","r","u","c","t","o","r">> THEN <<"O","b","j","e","c","t">> ELSE c)
       \o <<"(",")"," ","{"," ","[","n","a","t","i","v","e"," ","c","o","d","e","]"," ","}">>

\* v.toString() of a cell value or of an inherited member
ToStr(v) == IF v.t = "other" THEN Str(MemberString(v.what)) ELSE v

\* values.map(v => v.toString()); the cells of parsed rows and of preview
\* records are strings
Strings(values) == [i \in 1..Len(values) |-> ToStr(values[i])]

\* the object built by columns.forEach((c, i) => obj[c] = r[i] ?? ''):
\* a later column of the same name overwrites an earlier one
RowObject(columns, r) ==
  [c \in Range(columns) \ {ProtoKey} |->
     Str(CellAt(r, CHOOSE i \in 1..Len(columns) :
                     /\ columns[i] = c
                     /\ \A j \in 1..Len(columns) : columns[j] = c => j <= i))]

Undefined == [t |-> "undef"]

\* r[c] on a row object: the value under the key c, else the member of
\* Object.prototype of that name, else undefined
Get(r, c) ==
  IF c \in DOMAIN r THEN r[c]
  ELSE IF c \in ObjectPrototypeNames THEN Inherited(c)
  ELSE Undefined

\* v === '' || v === null || v === undefined
IsMissing(v) == v = Str(<<>>) \/ v = Undefined

\* xs.filter(p) for a predicate given as the set of kept elements; the two
\* halves are filtered and joined
RECURSIVE FilterSeq(_, _)
FilterSeq(xs, keep) ==
  IF Len(xs) = 0 THEN <<>>
  ELSE IF Len(xs) = 1 THEN (IF xs[1] \in keep THEN xs ELSE <<>>)
  ELSE FilterSeq(SubSeq(xs, 1, Len(xs) \div 2), keep)
       \o FilterSeq(SubSeq(xs, Len(xs) \div 2 + 1, Len(xs)), keep)

\* the elements of xs at the positions i..j that are in idx, order kept
RECURSIVE SelectRange(_, _, _, _)
SelectRange(xs, idx, i, j) ==
  IF i > j THEN <<>>
  ELSE IF i = j THEN (IF i \in idx THEN <<xs[i]>> ELSE <<>>)
  ELSE SelectRange(xs, idx, i, (i + j) \div 2)
       \o SelectRange(xs, idx, (i + j) \div 2 + 1, j)

\* xs.filter((x, i) => i is in idx), order kept, from position i on
SelectIdx(xs, idx, i) == SelectRange(xs, idx, i, Len(xs))

\* data.map(row => row[col]).filter(val => val !== null && val !== undefined && val !== '')
PresentValues(data, col) ==
  LET vals == [i \in 1..Len(data) |-> Get(data[i], col)]
  IN  SelectIdx(vals, {i \in 1..Len(data) : ~IsMissing(vals[i])}, 1)

\* Number(v) of every value
Numbers(values) == [i \in 1..Len(values) |-> Number(values[i])]

\* new Set(nums).size: equal numbers count once, 0 and -0 are equal
UniqueCount(nums) == Cardinality({SameValueZero(nums[i]) : i \in 1..Len(nums)})

\* uniqueCount <= 10 && uniqueCount < length * 0.1, the product being the
\* double nearest to it
IsDiscrete(uniqueCount, length) ==
  /\ uniqueCount <= 10
  /\ NumLess(Num(uniqueCount, 1), NumTimesInt(Tenth, length))

\* variant: discrete as soon as there are at most 10 distinct values
TypeOfNumbers_NoRatio(nums) ==
  IF Len(nums) = 0 THEN "regression"
  ELSE IF \E i \in 1..Len(nums) : isNaN(nums[i]) THEN "classification"
  ELSE IF UniqueCount(nums) <= 10 THEN "classification"
  ELSE "regression"

\* variant: a non-numeric value does not force classification
TypeOfNumbers_NumericOnly(nums) ==
  IF Len(nums) = 0 THEN "regression"
  ELSE IF IsDiscrete(UniqueCount(nums), Len(nums)) THEN "classification"
  ELSE "regression"

\* the decision of inferTargetType over Number(v) of the non-missing values:
\* no value is regression, a non-numeric value is classification, and
\* numeric values are classification when
\* uniqueCount <= 10 && uniqueCount < values.length * 0.1
TypeOfNumbers(nums) ==
  IF Len(nums) = 0 THEN "regression"
  ELSE IF \E i \in 1..Len(nums) : isNaN(nums[i]) THEN "classification"
  ELSE IF IsDiscrete(UniqueCount(nums), Len(nums)) THEN "classification"
  ELSE "regression"

\* variant of TargetTypeOf without the ratio test
TargetTypeOf_NoRatio(values) == TypeOfNumbers_NoRatio(Numbers(values))

\* inferTargetType (parser.ts) and the targetType closure of finalize:
\* the same computation over the non-missing target values
TargetTypeOf(values) == TypeOfNumbers(Numbers(values))

inferTargetType(data, targetColumn) ==
  TargetTypeOf(PresentValues(data, targetColumn))

\* getUniqueValues(data, column).length
getUniqueValuesLength(data, column) ==
  Cardinality(Range(PresentValues(data, column)))

\* variant: the check for data rows is missing
NoDataRows_Unchecked(data) == FALSE

\* data.length === 0 after the header, the last check of parseCSVText
NoDataRows(data) == Len(data) = 0

\* the Dataset parseCSVText returns, from its columns, target and features
ParsedDataset(data, targetColumn, featureColumns, targetType, options) ==
  [success |-> TRUE,
   data |-> [data |-> data,
             features |-> featureColumns,
             target |-> targetColumn,
             targetType |-> targetType,
             numSamples |-> Len(data),
             numFeatures |-> Len(featureColumns),
             numClasses |->
               IF targetType = "classification"
               THEN Some(getUniqueValuesLength(data, targetColumn))
               ELSE None,
             skipRows |-> options.skipRows,
             headerRow |-> options.headerRow]]

\* featureOverride || columns.filter(c => c !== targetColumn)
FeatureColumnsOf(columns, targetColumn, options) ==
  IF options.featureColumns.def
  THEN options.featureColumns.v
  ELSE FilterSeq(columns, Range(columns) \ {targetColumn})

\* the target and features of parseCSVText, once the target is known
ParsedWithTarget(columns, data, targetColumn, options) ==
  ParsedDataset(data, targetColumn,
                FeatureColumnsOf(columns, targetColumn, options),
                inferTargetType(data, targetColumn), options)

\* parseCSVText after the header row has been resolved to columns
ParsedData(columns, data, options) ==
  IF NoDataRows(data)
  THEN [success |-> FALSE, error |-> "No data rows found after header"]
  ELSE ParsedWithTarget(columns, data,
         \* targetOverride || columns[columns.length - 1]
         IF options.targetColumn.def /\ options.targetColumn.v # <<>>
         THEN options.targetColumn.v
         ELSE columns[Len(columns)],
         options)

\* data: one object per row of the data section
DataRows(columns, dataSection) ==
  [i \in 1..Len(dataSection) |-> RowObject(columns, dataSection[i])]

\* parseCSVText on the rows left after skipRows
ParsedWorkingRows(workingRows, options) ==
  IF options.headerRow >= Len(workingRows)
  THEN [success |-> FALSE,
        error |-> "headerRow is out of range after skipping rows"]
  ELSE ParsedData(ResolveColumns(workingRows[options.headerRow + 1]),
                  DataRows(ResolveColumns(workingRows[options.headerRow + 1]),
                           SubSeq(workingRows, options.headerRow + 2,
                                  Len(workingRows))),
                  options)

\* parseCSVText(text, {skipRows, headerRow, targetColumn, featureColumns})
parseCSVText(text, options) ==
  IF PapaErrors(text) THEN [success |-> FALSE, error |-> "CSV parsing errors"]
  ELSE IF Len(PapaRows(text)) = 0
  THEN [success |-> FALSE,
        error |-> "CSV file is empty or contains no valid data"]
  ELSE IF options.skipRows >= Len(PapaRows(text))
  THEN [success |-> FALSE, error |-> "skipRows exceeds total number of rows"]
  ELSE ParsedWorkingRows(SubSeq(PapaRows(text), options.skipRows + 1,
                                Len(PapaRows(text))),
                         options)

\* the per-cell classification of generatePreview
CellFlag(raw) ==
  IF trim(raw) = <<>> THEN "missing"
  ELSE IF toLowerCase(trim(raw)) \in PLACEHOLDERS THEN "placeholder"
  ELSE "valid"

\* xs with duplicates removed, first occurrences kept, at most n elements
RECURSIVE FirstDistinct(_, _, _)
FirstDistinct(xs, acc, n) ==
  IF xs = <<>> \/ Len(acc) >= n THEN acc
  ELSE IF Head(xs) \in Range(acc)
       THEN FirstDistinct(Tail(xs), acc, n)
       ELSE FirstDistinct(Tail(xs), Append(acc, Head(xs)), n)

\* stats[col] from the non-missing values of the column, their normalized
\* forms (trimmed, lower-cased) and their numeric forms
StatsOfPresent(total, nonMissing, norms, nums) ==
  [missing |-> total - Len(nonMissing),
   inferredType |->
     IF total > 0
     THEN IF \A k \in 1..Len(nonMissing) :
               norms[k] \in PLACEHOLDERS \/ isNaN(nums[k])
          THEN "categorical"
          ELSE IF \A k \in 1..Len(nonMissing) :
                    norms[k] \notin PLACEHOLDERS /\ ~isNaN(nums[k])
               THEN "numeric"
               ELSE "mixed"
     ELSE "empty",
   unique |-> Cardinality(Range(Strings(nonMissing))),
   placeholderMissing |->
     Cardinality({k \in 1..Len(nonMissing) : norms[k] \in PLACEHOLDERS}),
   examplePlaceholders |->
     FirstDistinct(
       SelectIdx(norms, {k \in 1..Len(nonMissing) : norms[k] \in PLACEHOLDERS}, 1),
       <<>>, 5),
   \* numericAll / nonMissing.length, kept as the pair
   numericFraction |->
     IF Len(nonMissing) > 0
     THEN Some(Num(Cardinality({k \in 1..Len(nonMissing) : ~isNaN(nums[k])}),
                   Len(nonMissing)))
     ELSE None]

\* stats[col] from the values of the column in the data region
StatsOfValues(total, nonMissing) ==
  StatsOfPresent(total, nonMissing,
                 [k \in 1..Len(nonMissing) |->
                    toLowerCase(trim(ToStr(nonMissing[k]).s))],
                 Numbers(nonMissing))

\* the values of col in the preview records at or after dataStartIndex
DataRegionValues(previewRecords, dataStartIndex, col) ==
  [k \in 1..(Len(previewRecords) - dataStartIndex) |->
     Get(previewRecords[k + dataStartIndex], col)]

\* stats[col] of generatePreview, over the preview records at or after
\* dataStartIndex (0-based raw index)
ColumnStats(previewRecords, dataStartIndex, col) ==
  StatsOfValues(
    Len(DataRegionValues(previewRecords, dataStartIndex, col)),
    FilterSeq(DataRegionValues(previewRecords, dataStartIndex, col),
              {v \in Range(DataRegionValues(previewRecords, dataStartIndex, col)) :
                 ~IsMissing(v)}))

\* the limit violations of generatePreview
LimitErrors(rowCount, columnCount) ==
  (IF rowCount > maxRows
   THEN <<[limit |-> "maxRows", count |-> rowCount]>> ELSE <<>>)
  \o
  (IF columnCount > maxColumns
   THEN <<[limit |-> "maxColumns", count |-> columnCount]>> ELSE <<>>)

\* the successful result of generatePreview
PreviewResult(rowCount, headerAbs, columns, previewRecords, cellFlags, limitErrors, config) ==
  [success |-> TRUE,
   rawRowCount |-> rowCount,
   headerAbsoluteIndex |-> headerAbs,
   dataStartIndex |-> headerAbs + 1,
   columns |-> columns,
   previewRecords |-> previewRecords,
   \* stats[col] = {...} stores nothing under the key __proto__
   stats |-> [c \in Range(columns) \ {ProtoKey} |->
                ColumnStats(previewRecords, headerAbs + 1, c)],
   config |-> config,
   cellFlags |-> cellFlags,
   \* limitErrors.length ? limitErrors : undefined
   limitErrors |-> limitErrors]

\* generatePreview once the header row is known to be in range;
\* previewRawRows is rows.slice(0, previewLimit)
PreviewOfRows(rows, headerAbs, columns, previewRawRows, config) ==
  PreviewResult(Len(rows), headerAbs, columns,
                [k \in 1..Len(previewRawRows) |->
                   RowObject(columns, previewRawRows[k])],
                [k \in 1..Len(previewRawRows) |->
                   [i \in 1..Len(columns) |->
                      CellFlag(CellAt(previewRawRows[k], i))]],
                LimitErrors(Len(rows), Len(rows[headerAbs + 1])),
                config)

\* variant: the preview window is the whole text
PreviewSlice_All(rows, previewLimit) == rows

\* rows.slice(0, previewLimit), previewLimit >= 0
PreviewSlice(rows, previewLimit) ==
  SubSeq(rows, 1, IF previewLimit < Len(rows) THEN previewLimit ELSE Len(rows))

\* the structural checks of generatePreview
PreviewChecked(text, rows, headerAbs, config) ==
  IF PapaErrors(text) THEN [success |-> FALSE, error |-> "parse errors"]
  ELSE IF Len(rows) = 0
  THEN [success |-> FALSE, error |-> "No rows found", config |-> config]
  ELSE IF config.skipRows >= Len(rows)
  THEN [success |-> FALSE, error |-> "skipRows >= total rows",
        config |-> config]
  ELSE IF headerAbs >= Len(rows)
  THEN [success |-> FALSE, error |-> "headerRow out of range",
        config |-> config]
  ELSE PreviewOfRows(rows, headerAbs, ResolveColumns(rows[headerAbs + 1]),
                     PreviewSlice(rows, config.previewLimit),
                     config)

\* generatePreview(text, {skipRows, headerRow, previewLimit})
generatePreview(text, cfg) ==
  PreviewChecked(text, PapaRows(text), cfg.skipRows + cfg.headerRow,
                 [skipRows |-> cfg.skipRows, headerRow |-> cfg.headerRow,
                  previewLimit |-> cfg.previewLimit])

----------------------------------------------------------------------------
(* useIngestion.finalize (useIngestion.ts)                                 *)

Simple(t) == [type |-> t]

Constant(v) == [type |-> "constant", value |-> v]

\* typeof s === 'string' ? s : s.type; a member of Object.prototype has no
\* type
StratType(s) == IF "type" \in DOMAIN s THEN s.type ELSE "undefined"

\* typeof s === 'string' for a strategy
IsSimple(s) == DOMAIN s = {"type"}

\* obj[col] on a plain object with the entries own: the entry, else the
\* member of Object.prototype of that name, else undefined
Lookup(own, col) ==
  IF col \in DOMAIN own THEN Some(own[col])
  ELSE IF col \in ObjectPrototypeNames THEN Some(Inherited(col))
  ELSE None

\* config.columnStrategies || {}
OwnStrategies(config) ==
  IF config.columnStrategies.def THEN config.columnStrategies.v ELSE <<>>

\* config.columnStrategies?.[col]
Override(config, col) ==
  IF config.columnStrategies.def
  THEN Lookup(config.columnStrategies.v, col)
  ELSE None

\* obj[col] read after obj[col] = s on a plain object: under the key
\* __proto__ a string is not stored and Object.prototype is read, an object
\* becomes the prototype and is read back
Stored(col, s) ==
  IF col = ProtoKey /\ IsSimple(s) THEN Inherited(ProtoKey) ELSE s

\* variant: the global strategy wins over the override of the column
Effective_GlobalFirst(config, col) ==
  IF config.globalStrategy.def THEN config.globalStrategy.v
  ELSE IF Override(config, col).def THEN Override(config, col).v
  ELSE Simple("leave-as-is")

\* effective[col]: ov !== undefined ? ov : config.globalStrategy || 'leave-as-is'
Effective(config, col) ==
  Stored(col, IF Override(config, col).def THEN Override(config, col).v
              ELSE IF config.globalStrategy.def THEN config.globalStrategy.v
              ELSE Simple("leave-as-is"))

\* effectiveTargetStrategy: targetOverride || config.globalStrategy
EffectiveTargetStrategy(config) ==
  IF /\ config.targetColumn.def
     /\ config.targetColumn.v # <<>>
     /\ Override(config, config.targetColumn.v).def
  THEN Override(config, config.targetColumn.v)
  ELSE config.globalStrategy

\* variant: only the feature cells are normalized
NormalizeRow_FeaturesOnly(r, features, target) ==
  [c \in DOMAIN r |->
     IF /\ c \in Range(features)
        /\ r[c].t = "str"
        /\ \/ toLowerCase(trim(r[c].s)) = <<>>
           \/ toLowerCase(trim(r[c].s)) \in PLACEHOLDERS
     THEN Str(<<>>)
     ELSE r[c]]

\* the placeholder and whitespace normalization of one row
NormalizeRow(r, features, target) ==
  LET allCols == Range(features) \cup (IF target # <<>> THEN {target} ELSE {})
  IN  [c \in DOMAIN r |->
         IF /\ c \in allCols
            /\ r[c].t = "str"
            /\ \/ toLowerCase(trim(r[c].s)) = <<>>
               \/ toLowerCase(trim(r[c].s)) \in PLACEHOLDERS
         THEN Str(<<>>)
         ELSE r[c]]

\* dropCols: features whose effective strategy is drop-row
DropCols(config, features) ==
  FilterSeq(features,
            {c \in Range(features) : StratType(Effective(config, c)) = "drop-row"})

\* globalDrop
GlobalDrop(config) ==
  config.globalStrategy.def /\ config.globalStrategy.v = Simple("drop-row")

\* variant: a target without any strategy is always kept clean
TargetDrop_DefaultTrue(config, features, target) ==
  IF target = <<>> THEN FALSE
  ELSE IF GlobalDrop(config) THEN TRUE
  ELSE IF EffectiveTargetStrategy(config).def
       THEN StratType(EffectiveTargetStrategy(config).v) = "drop-row"
       ELSE TRUE

\* targetDrop
TargetDrop(config, features, target) ==
  IF target = <<>> THEN FALSE
  ELSE IF GlobalDrop(config) THEN TRUE
  ELSE IF EffectiveTargetStrategy(config).def
       THEN StratType(EffectiveTargetStrategy(config).v) = "drop-row"
       ELSE Len(DropCols(config, features)) > 0

\* counts.get(k) once every present value has been counted
CountOf(presentValues, k) ==
  Cardinality({i \in 1..Len(presentValues) : presentValues[i] = k})

\* the keys of counts in insertion order: the values in first-seen order
CountKeys(presentValues) == FirstDistinct(presentValues, <<>>, Len(presentValues))

RECURSIVE BestCount_LastTie(_, _, _, _)
\* variant: a later key replaces best on an equal count
BestCount_LastTie(keys, presentValues, best, bestC) ==
  IF keys = <<>> THEN best
  ELSE IF CountOf(presentValues, Head(keys)) >= bestC
       THEN BestCount_LastTie(Tail(keys), presentValues, Head(keys),
                              CountOf(presentValues, Head(keys)))
       ELSE BestCount_LastTie(Tail(keys), presentValues, best, bestC)

RECURSIVE BestCount(_, _, _, _)
\* counts.forEach((c, v) => { if (c > bestC) { bestC = c; best = v } })
BestCount(keys, presentValues, best, bestC) ==
  IF keys = <<>> THEN best
  ELSE IF CountOf(presentValues, Head(keys)) > bestC
       THEN BestCount(Tail(keys), presentValues, Head(keys),
                      CountOf(presentValues, Head(keys)))
       ELSE BestCount(Tail(keys), presentValues, best, bestC)

\* variant: among the most frequent values the last-seen one
ModeOf_LastTie(presentValues) ==
  BestCount_LastTie(CountKeys(Strings(presentValues)), Strings(presentValues),
                    Strings(presentValues)[1], 0)

\* the mode branch over the keys v.toString(): best starts as the first
\* key, bestC as 0
ModeOf(presentValues) ==
  BestCount(CountKeys(Strings(presentValues)), Strings(presentValues),
            Strings(presentValues)[1], 0)

RECURSIVE SumFrom(_, _)
\* the reduction from the left with the accumulator s
SumFrom(s, xs) == IF xs = <<>> THEN s ELSE SumFrom(NumAdd(s, Head(xs)), Tail(xs))

\* numeric.reduce((s, v) => s + v, 0)
SumNums(xs) == SumFrom(Num(0, 1), xs)

RECURSIVE InsertSorted(_, _)
InsertSorted(x, xs) ==
  IF xs = <<>> THEN <<x>>
  ELSE IF ~NumLess(Head(xs), x) THEN <<x>> \o xs
  ELSE <<Head(xs)>> \o InsertSorted(x, Tail(xs))

RECURSIVE SortNums(_)
\* [...numeric].sort((a, b) => a - b)
SortNums(xs) ==
  IF xs = <<>> THEN <<>> ELSE InsertSorted(Head(xs), SortNums(Tail(xs)))

\* the median branch
MedianOf(numeric) ==
  LET sorted == SortNums(numeric)
      mid == Len(sorted) \div 2
  IN  IF Len(sorted) % 2 = 0
      THEN NumDivInt(NumAdd(sorted[mid], sorted[mid + 1]), 2)
      ELSE sorted[mid + 1]

\* the mean branch
MeanOf(numeric) == NumDivInt(SumNums(numeric), Len(numeric))

\* the numeric fallback and the mean/median branches
NumericReplacement(type, presentValues, numeric) ==
  IF Len(numeric) = 0 THEN Some(presentValues[1])
  ELSE IF type = "mean" THEN Some(MeanOf(numeric))
  ELSE IF type = "median" THEN Some(MedianOf(numeric))
  ELSE None

\* presentValues.map(v => Number(v)).filter(v => !isNaN(v))
NumericOf(nums) == FilterSeq(nums, {x \in Range(nums) : ~isNaN(x)})

\* variant: a column without non-missing values gets no replacement
ReplacementOf_NoFallback(strat, presentValues) ==
  IF StratType(strat) \in {"undefined", "leave-as-is", "drop-row"} THEN None
  ELSE IF StratType(strat) = "zero" THEN Some(Num(0, 1))
  ELSE IF StratType(strat) = "constant" THEN Some(strat.value)
  ELSE IF Len(presentValues) = 0 THEN None
  ELSE IF StratType(strat) = "mode" THEN Some(ModeOf(presentValues))
  ELSE NumericReplacement(StratType(strat), presentValues,
                          NumericOf(Numbers(presentValues)))

\* replacements[col] from the non-missing values of the column
ReplacementOf(strat, presentValues) ==
  IF StratType(strat) \in {"undefined", "leave-as-is", "drop-row"} THEN None
  ELSE IF StratType(strat) = "zero" THEN Some(Num(0, 1))
  ELSE IF StratType(strat) = "constant" THEN Some(strat.value)
  ELSE IF Len(presentValues) = 0 THEN Some(Num(0, 1))
  ELSE IF StratType(strat) = "mode" THEN Some(ModeOf(presentValues))
  ELSE NumericReplacement(StratType(strat), presentValues,
                          NumericOf(Numbers(presentValues)))

\* the value assigned to replacements[col], None where the code assigns
\* none; the assignment of a string or a number under the key __proto__
\* stores nothing
Assigned(col, v) == IF col = ProtoKey THEN None ELSE v

\* replacements[col] as the imputation step reads it, None where it is
\* undefined; rows are the normalized rows before row dropping
Replacement(rows, col, strat) ==
  IF Assigned(col, ReplacementOf(strat, PresentValues(rows, col))).def
  THEN ReplacementOf(strat, PresentValues(rows, col))
  ELSE Lookup(<<>>, col)

\* variant: only the dropCols are checked, also under globalDrop
RowDropped_DropColsOnly(r, config, features, target) ==
  \/ \E i \in 1..Len(DropCols(config, features)) :
       IsMissing(Get(r, DropCols(config, features)[i]))
  \/ /\ TargetDrop(config, features, target)
     /\ target # <<>>
     /\ IsMissing(Get(r, target))

\* the predicate of rows.filter in the row-dropping step, negated
RowDropped(r, config, features, target) ==
  LET checked == IF GlobalDrop(config) THEN features
                 ELSE DropCols(config, features)
  IN  \/ \E i \in 1..Len(checked) : IsMissing(Get(r, checked[i]))
      \/ /\ TargetDrop(config, features, target)
         /\ target # <<>>
         /\ IsMissing(Get(r, target))

\* variant: rows are filtered only under globalDrop
DropRows_GlobalOnly(rows, config, features, target) ==
  IF GlobalDrop(config)
  THEN SelectIdx(rows,
         {i \in 1..Len(rows) : ~RowDropped(rows[i], config, features, target)}, 1)
  ELSE rows

\* the row-dropping step
DropRows(rows, config, features, target) ==
  IF \/ GlobalDrop(config)
     \/ Len(DropCols(config, features)) > 0
     \/ TargetDrop(config, features, target)
  THEN SelectIdx(rows,
         {i \in 1..Len(rows) : ~RowDropped(rows[i], config, features, target)}, 1)
  ELSE rows

\* replacements, for the columns in cols
Replacements(allRows, config, cols) ==
  [c \in cols |-> Replacement(allRows, c, Effective(config, c))]

\* the strategy of the column imputes and replacements[col] is defined
Imputable(config, replacements, c) ==
  /\ StratType(Effective(config, c)) \notin {"undefined", "leave-as-is", "drop-row"}
  /\ replacements[c].def

\* variant: every imputable cell of cols is replaced, missing or not
ImputeCells_Overwrite(r, config, cols, replacements) ==
  [c \in (DOMAIN r) \cup {d \in cols : Imputable(config, replacements, d)} |->
     IF c \in cols /\ Imputable(config, replacements, c)
     THEN replacements[c].v
     ELSE r[c]]

\* the row with the missing cells of cols replaced; a column of cols the
\* row reads as undefined is missing, so it is added when it is imputable
ImputeCells(r, config, cols, replacements) ==
  [c \in (DOMAIN r) \cup {d \in cols : /\ IsMissing(Get(r, d))
                                        /\ Imputable(config, replacements, d)} |->
     IF /\ c \in cols
        /\ IsMissing(Get(r, c))
        /\ Imputable(config, replacements, c)
     THEN replacements[c].v
     ELSE r[c]]

\* variant: every column of the row is imputed, not only the features
ImputeRow_AllColumns(r, allRows, config, features) ==
  ImputeCells(r, config, Range(features) \cup DOMAIN r,
              Replacements(allRows, config, Range(features) \cup DOMAIN r))

\* the imputation step on one row; replacements are computed from allRows
ImputeRow(r, allRows, config, features) ==
  ImputeCells(r, config, Range(features),
              Replacements(allRows, config, Range(features)))

\* rows.map of the imputation step
ImputeRows(kept, allRows, config, features) ==
  [i \in 1..Len(kept) |-> ImputeRow(kept[i], allRows, config, features)]

\* variant: dropApplied ignores the target mechanism
ImputationSummary_FeaturesOnly(config, features, target, originalRowCount, finalRowCount) ==
  [originalRowCount |-> originalRowCount,
   droppedRowCount |-> originalRowCount - finalRowCount,
   dropApplied |-> \/ GlobalDrop(config)
                   \/ Len(DropCols(config, features)) > 0,
   dropColumns |-> DropCols(config, features),
   globalDrop |-> GlobalDrop(config),
   targetDrop |-> TargetDrop(config, features, target)]

\* imputationSummary
ImputationSummary(config, features, target, originalRowCount, finalRowCount) ==
  [originalRowCount |-> originalRowCount,
   droppedRowCount |-> originalRowCount - finalRowCount,
   dropApplied |-> \/ GlobalDrop(config)
                   \/ Len(DropCols(config, features)) > 0
                   \/ TargetDrop(config, features, target),
   dropColumns |-> DropCols(config, features),
   globalDrop |-> GlobalDrop(config),
   targetDrop |-> TargetDrop(config, features, target)]

\* variant: numClasses is counted for every target type
FinalDataset_AlwaysCounted(config, features, target, rows, targetType, summary) ==
  [data |-> rows,
   features |-> features,
   target |-> target,
   targetType |-> targetType,
   numSamples |-> Len(rows),
   numFeatures |-> Len(features),
   numClasses |-> Some(Cardinality(Range(PresentValues(rows, target)))),
   skipRows |-> config.skipRows,
   headerRow |-> config.headerRow,
   imputationSummary |-> summary]

\* the Dataset finalize returns
FinalDataset(config, features, target, rows, targetType, summary) ==
  [data |-> rows,
   features |-> features,
   target |-> target,
   targetType |-> targetType,
   numSamples |-> Len(rows),
   numFeatures |-> Len(features),
   numClasses |->
     IF targetType = "classification"
     THEN Some(Cardinality(Range(PresentValues(rows, target))))
     ELSE None,
   skipRows |-> config.skipRows,
   headerRow |-> config.headerRow,
   imputationSummary |-> summary]

\* finalize from the rows left after dropping and imputation
FinalizeRows(config, features, target, originalRowCount, rows) ==
  [error |-> None,
   dataset |-> Some(
     FinalDataset(config, features, target, rows,
                  TargetTypeOf(PresentValues(rows, target)),
                  ImputationSummary(config, features, target,
                                    originalRowCount, Len(rows))))]

\* finalize from the normalized rows: row dropping, then imputation
FinalizeNormalized(config, features, target, normalized) ==
  FinalizeRows(config, features, target, Len(normalized),
               ImputeRows(DropRows(normalized, config, features, target),
                          normalized, config, features))

\* finalize from the result of parseCSVText
FinalizeParsed(config, base) ==
  IF ~base.success THEN [dataset |-> None, error |-> Some(base.error)]
  ELSE FinalizeNormalized(config, base.data.features, base.data.target,
         [i \in 1..Len(base.data.data) |->
            NormalizeRow(base.data.data[i], base.data.features,
                         base.data.target)])

\* finalize() as the closure created for (rawText, config) with the preview
\* of that render
finalize(rawText, config, preview) ==
  IF IsEmptyText(rawText)
  THEN [dataset |-> None, error |-> Some("No raw text loaded")]
  ELSE IF preview # None /\ preview.success /\ Len(preview.limitErrors) > 0
  THEN [dataset |-> None,
        error |-> Some("Dataset exceeds configured limits")]
  ELSE FinalizeParsed(config,
         parseCSVText(rawText,
           [skipRows |-> config.skipRows,
            headerRow |-> config.headerRow,
            targetColumn |-> config.targetColumn,
            featureColumns |-> config.featureColumns]))

----------------------------------------------------------------------------
(* CSVPreviewModal: the rows the preview marks as to be dropped            *)

\* effectiveStrategies[col]: the override read from
\* config.columnStrategies || {}, else config.globalStrategy || 'leave-as-is'
effectiveStrategies(config, col) ==
  Stored(col, IF Lookup(OwnStrategies(config), col).def
              THEN Lookup(OwnStrategies(config), col).v
              ELSE IF config.globalStrategy.def THEN config.globalStrategy.v
              ELSE Simple("leave-as-is"))

\* colValues: the values of col in the preview records at or after
\* dataStartIndex that are not '', null or undefined
colValues(previewRecords, dataStartIndex, col) ==
  FilterSeq(DataRegionValues(previewRecords, dataStartIndex, col),
            {v \in Range(DataRegionValues(previewRecords, dataStartIndex, col)) :
               ~IsMissing(v)})

\* the mean/median branch of replacementValues; nums are the numeric column
\* values, and without any the entry stays undefined
PreviewNumericReplacement(type, nums) ==
  IF Len(nums) = 0 THEN None
  ELSE IF type = "mean" THEN Some(MeanOf(nums))
  ELSE IF type = "median" THEN Some(MedianOf(nums))
  ELSE None

\* replacementValues[col] for the effective strategy strat and the column
\* values vals, None where the modal leaves the entry undefined
ReplacementValueOf(strat, vals) ==
  IF StratType(strat) = "zero" THEN Some(Num(0, 1))
  ELSE IF StratType(strat) = "constant" THEN Some(strat.value)
  ELSE IF StratType(strat) \notin {"mean", "median", "mode"} THEN None
  ELSE IF Len(vals) = 0 THEN None
  ELSE IF StratType(strat) = "mode" THEN Some(ModeOf(vals))
  ELSE PreviewNumericReplacement(StratType(strat), NumericOf(Numbers(vals)))

\* replacementValues[col] of the modal rendered with (config, preview); only
\* the available columns of a preview with stats get an entry
replacementValues(config, p, col) ==
  IF p = None \/ ~p.success THEN None
  ELSE IF col \notin Range(p.columns) THEN None
  ELSE Assigned(col,
         ReplacementValueOf(effectiveStrategies(config, col),
                            colValues(p.previewRecords, p.dataStartIndex, col)))

\* dropRowColumns: the available columns whose effective strategy is drop-row
dropRowColumns(config, availableColumns) ==
  FilterSeq(availableColumns,
            {c \in Range(availableColumns) :
               StratType(effectiveStrategies(config, c)) = "drop-row"})

\* availableColumns.indexOf(col), 1-based
IndexOf(xs, x) == CHOOSE i \in 1..Len(xs) : xs[i] = x /\ \A j \in 1..(i - 1) : xs[j] # x

\* rowsToDrop over the cell flags of a successful preview: the 0-based raw
\* indices of the data rows with a missing or placeholder cell in a
\* drop-row column
RowsToDropOf(cellFlags, dataStartIndex, availableColumns, drc) ==
  {rIdx \in dataStartIndex..(Len(cellFlags) - 1) :
     \E k \in 1..Len(drc) :
       cellFlags[rIdx + 1][IndexOf(availableColumns, drc[k])]
         \in {"missing", "placeholder"}}

\* rowsToDrop of the modal rendered with (config, preview)
rowsToDrop(config, p) ==
  IF p = None \/ ~p.success THEN {}
  ELSE RowsToDropOf(p.cellFlags, p.dataStartIndex, p.columns,
                    dropRowColumns(config, p.columns))

----------------------------------------------------------------------------
(* The useIngestion hook as a state machine                                *)

VARIABLES
  rawText,        \* useState rawText
  config,         \* useState config
  preview,        \* useState preview (None is null)
  error,          \* useState error (None is null)
  initializedRef, \* initializedRef.current
  finPreview,     \* the preview captured by the memoized finalize closure
  pending,        \* passive effects scheduled by the last commit
  unmounted,      \* a render threw and React removed the component
  result,         \* what the last finalize() call returned, NoCall otherwise
  storeDataset,   \* useNeuralNetworkStore dataset (None is null)
  previewModalOpen, \* DatasetTab useState previewModalOpen
  tabError        \* DatasetTab useState error (None is null)

\* the state of the component that owns the hook, and of the store
tabVars == <<storeDataset, previewModalOpen, tabError>>

vars == <<rawText, config, preview, error, initializedRef, finPreview,
          pending, unmounted, result, storeDataset, previewModalOpen,
          tabError>>

NoCall == [called |-> FALSE]

EmptyText == [empty |-> TRUE, eol |-> "lf", rows |-> <<>>, errors |-> FALSE]

\* defaultIngestionConfig
defaultIngestionConfig ==
  [skipRows |-> 0,
   headerRow |-> 0,
   previewLimit |-> DefaultPreviewLimit,
   targetColumn |-> None,
   featureColumns |-> None,
   globalStrategy |-> None,
   columnStrategies |-> None]

\* the dependency list of regenerate
RegenDeps(t, c) == <<t, c.skipRows, c.headerRow, c.previewLimit>>

\* { ...prev, ...patch }
Patched(prev, patch) ==
  [k \in DOMAIN prev |-> IF k \in DOMAIN patch THEN patch[k] ELSE prev[k]]

\* prev.featureColumns || []
FeaturesOrEmpty(c) == IF c.featureColumns.def THEN c.featureColumns.v ELSE <<>>

\* the first `changed` case of the auto-init updater: !next.targetColumn
InitTarget(prev) == ~prev.targetColumn.def \/ prev.targetColumn.v = <<>>

\* its second `changed` case: !next.featureColumns || length === 0
InitFeatures(prev) ==
  ~prev.featureColumns.def \/ Len(prev.featureColumns.v) = 0

\* the updater of the one-time auto-init effect, for the columns of the
\* preview the effect closed over
AutoInitConfig(prev, columns) ==
  LET withTarget ==
        IF InitTarget(prev)
        THEN [prev EXCEPT !.targetColumn = Some(columns[Len(columns)])]
        ELSE prev
  IN  IF InitFeatures(withTarget)
      THEN [withTarget EXCEPT !.featureColumns =
              Some(FilterSeq(columns, Range(columns) \ {withTarget.targetColumn.v}))]
      ELSE withTarget

\* the guard of the auto-init effect
AutoInitRuns(p, initialized) ==
  /\ p # None
  /\ p.success
  /\ Len(p.columns) > 0
  /\ ~initialized

\* the guard of the target-not-in-features effect
EnsureTargetRuns(c) ==
  /\ c.targetColumn.def
  /\ c.targetColumn.v # <<>>
  /\ c.featureColumns.def
  /\ c.targetColumn.v \in Range(c.featureColumns.v)

\* its updater: prev.featureColumns!.filter(f => f !== prev.targetColumn),
\* for a prev whose featureColumns is an array
EnsureTargetConfig(prev) ==
  [prev EXCEPT !.featureColumns =
     Some(FilterSeq(prev.featureColumns.v,
                    {f \in Range(prev.featureColumns.v) :
                       Some(f) # prev.targetColumn}))]

\* Before a render React runs the passive effects still pending from the
\* last commit, in declaration order (regenerate, auto-init,
\* target-not-in-features). Each effect reads the state of that commit; the
\* updaters it queues are applied after those of the handler that caused the
\* render, and the batch is committed once.

\* the regenerate effect is pending
Regenerates == "regenerate" \in pending

\* the preview regenerate computes from the committed rawText and config
Generated ==
  generatePreview(rawText,
    [skipRows |-> config.skipRows,
     headerRow |-> config.headerRow,
     previewLimit |-> config.previewLimit])

\* the auto-init effect is pending and passes its guard
Initializes == "autoInit" \in pending /\ AutoInitRuns(preview, initializedRef)

\* the target-not-in-features effect is pending and passes its guard
Ensures == "ensureTarget" \in pending /\ EnsureTargetRuns(config)

\* the preview after the handler left p1 and regenerate, if pending, set
\* gen
PreviewAfter(p1, gen) ==
  IF ~Regenerates THEN p1
  ELSE IF IsEmptyText(rawText) THEN None
  ELSE gen

\* the error after the handler left e1 and regenerate, if pending, saw gen
ErrorAfter(e1, gen) ==
  IF ~Regenerates \/ IsEmptyText(rawText) THEN e1
  ELSE IF ~gen.success THEN Some(gen.error)
  ELSE None

\* the preview object of the render is not the one of the last commit
PreviewReplaced(p1) ==
  IF Regenerates THEN ~IsEmptyText(rawText) \/ preview # None
  ELSE p1 # preview

\* the config after the handler left c1 and the auto-init updater ran
AfterInit(c1) ==
  IF Initializes THEN AutoInitConfig(c1, preview.columns) ELSE c1

\* the target-not-in-features updater meets a config without featureColumns:
\* prev.featureColumns!.filter throws a TypeError during the render
Throws(c1) == Ensures /\ ~AfterInit(c1).featureColumns.def

\* the config after all queued updaters
ConfigAfter(c1) ==
  IF Ensures THEN EnsureTargetConfig(AfterInit(c1)) ELSE AfterInit(c1)

\* the config object of the render is not the one of the last commit: the
\* handler replaced it (cfgNew), or an updater returned a new object
ConfigReplaced(c1, cfgNew) ==
  \/ cfgNew
  \/ Initializes /\ (InitTarget(c1) \/ InitFeatures(c1))
  \/ Ensures

\* the featureColumns array of the render is not the one of the last commit
FeaturesReplaced(c1, featNew) ==
  \/ featNew
  \/ Initializes /\ InitFeatures(c1)
  \/ Ensures

\* The commit of a render with rawText t, config c, preview p and error e:
\* the effects it schedules by their dependency lists and the finalize
\* closure it leaves. cfgNew, featNew and prevNew tell whether the config
\* object, the featureColumns array and the preview object are new objects.
Commit(t, c, p, e, cfgNew, featNew, prevNew) ==
  /\ rawText' = t
  /\ config' = c
  /\ preview' = p
  /\ error' = e
  /\ initializedRef' = (initializedRef \/ Initializes)
  /\ pending' =
       (IF RegenDeps(t, c) # RegenDeps(rawText, config)
        THEN {"regenerate"} ELSE {})
       \cup (IF prevNew THEN {"autoInit"} ELSE {})
       \cup (IF c.targetColumn # config.targetColumn \/ featNew
             THEN {"ensureTarget"} ELSE {})
  \* useCallback(..., [rawText, config])
  /\ finPreview' = IF t # rawText \/ cfgNew THEN p ELSE finPreview
  /\ UNCHANGED unmounted

\* the render with the preview gen that regenerate computes; a render that
\* throws is not committed: React removes the component
RenderWith(t1, c1, cfgNew, featNew, p1, e1, gen) ==
  IF Throws(c1)
  THEN /\ unmounted' = TRUE
       /\ pending' = {}
       /\ UNCHANGED <<rawText, config, preview, error, initializedRef,
                      finPreview>>
  ELSE Commit(t1, ConfigAfter(c1), PreviewAfter(p1, gen), ErrorAfter(e1, gen),
              ConfigReplaced(c1, cfgNew), FeaturesReplaced(c1, featNew),
              PreviewReplaced(p1))

\* The render after a handler that left rawText t1, config c1, preview p1 and
\* error e1 (cfgNew and featNew: it replaced the config object and the
\* featureColumns array).
Render(t1, c1, cfgNew, featNew, p1, e1) ==
  RenderWith(t1, c1, cfgNew, featNew, p1, e1, Generated)

\* a render caused by a state update outside the hook
Rerender == Render(rawText, config, FALSE, FALSE, preview, error)

\* loadRawText(text)
LoadRawText(text) ==
  /\ ~unmounted
  /\ Render(text, config, FALSE, FALSE, preview, error)
  /\ result' = NoCall

\* setConfig(updater) from an event handler: next is the updater applied to
\* the committed config, a new object
SetConfig(next, featNew) ==
  /\ ~unmounted
  /\ Render(rawText, next, TRUE, featNew, preview, error)
  /\ result' = NoCall

\* updateConfig(patch); fresh tells whether a featureColumns array in the
\* patch is a new array or the array the config already holds
UpdateConfig(patch, fresh) ==
  /\ \/ fresh
     \/ /\ "featureColumns" \in DOMAIN patch
        /\ patch.featureColumns.def
        /\ patch.featureColumns = config.featureColumns
  /\ SetConfig(Patched(config, patch),
               /\ "featureColumns" \in DOMAIN patch
               /\ \/ patch.featureColumns # config.featureColumns
                  \/ patch.featureColumns.def /\ fresh)

\* setTarget(target)
SetTarget(target) ==
  SetConfig([config EXCEPT
               !.targetColumn = Some(target),
               !.featureColumns =
                 Some(FilterSeq(FeaturesOrEmpty(config),
                                Range(FeaturesOrEmpty(config)) \ {target}))],
            TRUE)

\* toggleFeature(feature)
ToggleFeature(feature) ==
  LET current == FeaturesOrEmpty(config)
      next == IF feature \in Range(current)
              THEN FilterSeq(current, Range(current) \ {feature})
              ELSE IF config.targetColumn # Some(feature)
                   THEN Append(current, feature)
                   ELSE current
  IN  SetConfig([config EXCEPT !.featureColumns = Some(next)], TRUE)

\* setGlobalStrategy(strategy)
SetGlobalStrategy(strategy) ==
  SetConfig([config EXCEPT !.globalStrategy = Some(strategy)], FALSE)

\* setColumnStrategy(col, strategy); setColumnConstant(col, value) is
\* setColumnStrategy(col, {type: 'constant', value})
SetColumnStrategy(col, strategy) ==
  SetConfig([config EXCEPT !.columnStrategies =
               Some([k \in (DOMAIN OwnStrategies(config)) \cup {col} |->
                       IF k = col THEN strategy ELSE OwnStrategies(config)[k]])],
            FALSE)

\* finalize(), the memoized callback of the last commit
Finalize ==
  /\ ~unmounted
  /\ result' = [called |-> TRUE, ret |-> finalize(rawText, config, finPreview)]
  /\ UNCHANGED <<rawText, config, preview, error, initializedRef, finPreview,
                 pending, unmounted>>

\* the render after reset(): setRawText(''), setConfig({...default}),
\* setPreview(null), setError(null)
ResetRender ==
  Render(EmptyText, defaultIngestionConfig, TRUE, config.featureColumns.def,
         None, None)

\* reset()
Reset ==
  /\ ~unmounted
  /\ ResetRender
  /\ result' = NoCall

\* the scheduler flushes the pending effects without a handler
FlushEffects ==
  /\ ~unmounted
  /\ pending # {}
  /\ Rerender
  /\ UNCHANGED result

----------------------------------------------------------------------------
(* Inputs of the hook                                                      *)

\* largest headerRow the operator enters
MaxHeaderRow == 1

ColA == <<"a">>

ColB == <<"b">>

\* a text the row splitter accepts
Table(rows) == [empty |-> FALSE, eol |-> "lf", rows |-> rows, errors |-> FALSE]

\* a,b / 1,<empty> / 2,3
TextSmall == Table(<< <<ColA, ColB>>, <<<<"1">>, <<>>>>, <<<<"2">>, <<"3">>>> >>)

\* a header and maxRows data rows: one row more than DATA_LIMITS.maxRows
TextLong ==
  Table([i \in 1..(maxRows + 1) |->
           IF i = 1 THEN <<ColA, ColB>> ELSE <<DigitsOf(i), <<"1">>>>])

\* the columns a, b, c3, c4, ... of a header of n cells
WideHeader(n) ==
  [i \in 1..n |-> IF i = 1 THEN ColA
                  ELSE IF i = 2 THEN ColB
                  ELSE <<"c">> \o DigitsOf(i)]

\* maxColumns + 1 columns: one more than DATA_LIMITS.maxColumns
TextWide ==
  Table(<< WideHeader(maxColumns + 1),
           [i \in 1..(maxColumns + 1) |-> <<"1">>] >>)

\* the same rows written with \r\n line ends: another string
CrLf(text) == [text EXCEPT !.eol = "crlf"]

\* the texts loaded into the hook: a small table and the same table with
\* other line ends
HookTexts == {TextSmall, CrLf(TextSmall)}

\* the texts loaded where the size limits matter: a small table and a table
\* with more columns than DATA_LIMITS.maxColumns
LimitTexts == {TextSmall, TextWide}

HookColumns == {ColA, ColB}

HookFeatureLists == {<<>>, <<ColA>>, <<ColB>>, <<ColA, ColB>>, <<ColB, ColA>>}

HookPatches ==
  {[headerRow |-> n] : n \in 0..MaxHeaderRow}
  \cup {[targetColumn |-> Some(c)] : c \in HookColumns}
  \cup {[featureColumns |-> Some(fs)] : fs \in HookFeatureLists}
  \cup {[featureColumns |-> None]}

HookGlobalStrategies == {Simple("zero")}

HookColumnStrategies == {Constant(Str(<<"7">>))}

\* the state after mount: the three effects of the first commit change nothing
Init ==
  /\ rawText = EmptyText
  /\ config = defaultIngestionConfig
  /\ preview = None
  /\ error = None
  /\ initializedRef = FALSE
  /\ finPreview = None
  /\ pending = {}
  /\ unmounted = FALSE
  /\ result = NoCall
  /\ storeDataset = None
  /\ previewModalOpen = FALSE
  /\ tabError = None

\* the hook driven directly; its owner and the store do not take part
Next ==
  \/ \E text \in HookTexts : LoadRawText(text) /\ UNCHANGED tabVars
  \/ \E patch \in HookPatches, fresh \in BOOLEAN :
       UpdateConfig(patch, fresh) /\ UNCHANGED tabVars
  \/ \E c \in HookColumns : SetTarget(c) /\ UNCHANGED tabVars
  \/ \E c \in HookColumns : ToggleFeature(c) /\ UNCHANGED tabVars
  \/ \E s \in HookGlobalStrategies : SetGlobalStrategy(s) /\ UNCHANGED tabVars
  \/ \E s \in HookColumnStrategies : SetColumnStrategy(ColA, s) /\ UNCHANGED tabVars
  \/ Finalize /\ UNCHANGED tabVars
  \/ Reset /\ UNCHANGED tabVars
  \/ FlushEffects /\ UNCHANGED tabVars

Spec == Init /\ [][Next]_vars

\* the hook loaded with a text over DATA_LIMITS: loading, the effects,
\* finalize and reset
LimitNext ==
  \/ \E text \in LimitTexts : LoadRawText(text) /\ UNCHANGED tabVars
  \/ Finalize /\ UNCHANGED tabVars
  \/ Reset /\ UNCHANGED tabVars
  \/ FlushEffects /\ UNCHANGED tabVars

LimitSpec == Init /\ [][LimitNext]_vars

----------------------------------------------------------------------------
(* DatasetTab: the component that owns the hook and writes the store       *)

\* setDataset(dataset): set({ dataset })
setDataset(ds) == storeDataset' = ds

\* hasLimitErrors of the modal rendered with preview p
hasLimitErrors(p) == p # None /\ p.success /\ Len(p.limitErrors) > 0

\* handleFileUpload once file.text() has resolved with text: setError(null),
\* loadRawText(text), setPreviewModalOpen(true)
HandleFileUpload(text) ==
  /\ LoadRawText(text)
  /\ tabError' = None
  /\ previewModalOpen' = TRUE
  /\ UNCHANGED storeDataset

\* handleFileUpload for a file over DATA_LIMITS.maxFileBytes or whose
\* file.text() rejects: only the component's error is set
HandleFileUploadRejected(message) ==
  /\ ~unmounted
  /\ Rerender
  /\ tabError' = Some(message)
  /\ result' = NoCall
  /\ UNCHANGED <<storeDataset, previewModalOpen>>

\* a handler the open modal calls on the hook
FromModal(handler) ==
  /\ previewModalOpen
  /\ handler
  /\ UNCHANGED tabVars

\* the branch of handleConfirmUpload taken when finalize returned r with an
\* error or without a dataset: setError(err || 'Failed to finalize dataset')
ConfirmFailed(r) ==
  /\ tabError' = (IF r.error.def THEN r.error
                  ELSE Some("Failed to finalize dataset"))
  /\ Rerender
  /\ result' = [called |-> TRUE, ret |-> r]
  /\ UNCHANGED <<storeDataset, previewModalOpen>>

\* the branch taken when finalize returned the dataset of r: setDataset(ds),
\* setPreviewModalOpen(false), reset()
ConfirmSucceeded(r) ==
  /\ setDataset(r.dataset)
  /\ previewModalOpen' = FALSE
  /\ tabError' = None
  /\ ResetRender
  /\ result' = [called |-> TRUE, ret |-> r]

\* variant: the dataset of r is stored before the outcome is looked at
ConfirmWith_StoreFirst(r) ==
  IF r.error.def \/ ~r.dataset.def
  THEN /\ setDataset(r.dataset)
       /\ tabError' = (IF r.error.def THEN r.error
                       ELSE Some("Failed to finalize dataset"))
       /\ Rerender
       /\ result' = [called |-> TRUE, ret |-> r]
       /\ UNCHANGED previewModalOpen
  ELSE ConfirmSucceeded(r)

\* handleConfirmUpload on the outcome r of finalize()
ConfirmWith(r) ==
  IF r.error.def \/ ~r.dataset.def THEN ConfirmFailed(r) ELSE ConfirmSucceeded(r)

\* handleConfirmUpload, from the modal's confirm button (disabled while the
\* preview has limit errors)
HandleConfirmUpload ==
  /\ ~unmounted
  /\ previewModalOpen
  /\ ~hasLimitErrors(preview)
  /\ ConfirmWith(finalize(rawText, config, finPreview))

\* handleCancelUpload, the modal's onClose: setPreviewModalOpen(false), reset()
HandleCancelUpload ==
  /\ previewModalOpen
  /\ Reset
  /\ previewModalOpen' = FALSE
  /\ UNCHANGED <<storeDataset, tabError>>

\* a,b / "1 with the quote left open: the row splitter reports an error
TextBroken ==
  [Table(<< <<ColA, ColB>>, <<<<"1">>>> >>) EXCEPT !.errors = TRUE]

\* the files the operator picks: an empty file, a table and a file the row
\* splitter reports errors for
TabTexts == {EmptyText, TextSmall, TextBroken}

TabPatches == {[headerRow |-> n] : n \in 0..MaxHeaderRow}

TabMessages == {"File size exceeds limit", "Failed to read file"}

\* the component: uploads, the open modal changing the config (updateConfig,
\* setTarget and setGlobalStrategy stand for the handlers it passes on, all
\* of which are setConfig calls), confirm, cancel and the flush of the effects
TabNext ==
  \/ \E text \in TabTexts : HandleFileUpload(text)
  \/ \E message \in TabMessages : HandleFileUploadRejected(message)
  \/ \E patch \in TabPatches : FromModal(UpdateConfig(patch, TRUE))
  \/ \E c \in HookColumns : FromModal(SetTarget(c))
  \/ \E s \in HookGlobalStrategies : FromModal(SetGlobalStrategy(s))
  \/ HandleConfirmUpload
  \/ HandleCancelUpload
  \/ FlushEffects /\ UNCHANGED tabVars

TabSpec == Init /\ [][TabNext]_vars

----------------------------------------------------------------------------
(* generatePreview and finalize applied to enumerated texts and configs    *)

\* most data rows of an enumerated table of the imputation inputs
MaxDataRows == 2

\* most rows of an enumerated table of the structural inputs
MaxTableRows == 3

\* largest skipRows and headerRow of the structural inputs
MaxOffset == 2

\* longest enumerated header row
MaxHeaderLen == 3

ColF == <<"f">>

ColG == <<"g">>

ColT == <<"t">>

\* all sequences over S of length 1..n
SeqsUpTo(S, n) == UNION {[1..k -> S] : k \in 1..n}

\* data rows under the header f,g,t: present, empty, whitespace, placeholder,
\* non-numeric and short rows
ImputationRows ==
  { << <<"1">>, <<"2">>, <<"0">> >>,
    << <<>>, <<"4">>, <<"1">> >>,
    << <<"3">>, <<"N","A">>, <<"1">> >>,
    << <<"1">>, <<"x">>, <<" ">> >>,
    << <<" ","?"," ">>, <<"x">>, <<"n","u","l","l">> >>,
    << <<"5">> >> }

ImputationTexts ==
  {Table(<< <<ColF, ColG, ColT>> >> \o data) :
     data \in SeqsUpTo(ImputationRows, MaxDataRows)}

SimpleStrategies ==
  {Simple(t) : t \in {"leave-as-is", "drop-row", "zero", "mean", "median", "mode"}}

\* the per-column entries of the override objects
OverrideEntries ==
  { [c \in {ColF} |-> Simple("drop-row")],
    [c \in {ColF} |-> Constant(Str(<<"7">>))],
    [c \in {ColG} |-> Simple("mean")],
    [c \in {ColT} |-> Simple("drop-row")],
    [c \in {ColT} |-> Simple("zero")],
    [c \in {ColG, ColT} |-> IF c = ColG THEN Simple("leave-as-is")
                            ELSE Simple("mode")] }

\* config.columnStrategies: undefined, or the object of the overrides
OverrideMaps ==
  { None } \cup { Some(ov) : ov \in OverrideEntries }

\* target and features: left to the parser's defaults, chosen explicitly, or
\* features chosen while the target is left undefined
Selections ==
  { [targetColumn |-> None, featureColumns |-> None],
    [targetColumn |-> Some(ColT), featureColumns |-> Some(<<ColF, ColG>>)],
    [targetColumn |-> Some(ColF), featureColumns |-> Some(<<ColT>>)],
    [targetColumn |-> None, featureColumns |-> Some(<<ColG, ColT>>)] }

ImputationConfigs ==
  {[defaultIngestionConfig EXCEPT
      !.targetColumn = sel.targetColumn,
      !.featureColumns = sel.featureColumns,
      !.globalStrategy = g,
      !.columnStrategies = ov] :
     sel \in Selections,
     g \in {None} \cup {Some(st) : st \in SimpleStrategies},
     ov \in OverrideMaps}

\* rows of the structural inputs; any of them can be chosen as the header
StructureRows ==
  { << <<"x">>, <<"x">>, <<"y">> >>,
    << <<>>, <<" ","x"," ">>, <<"c","o","l">> >>,
    << <<"1">>, <<"2">> >>,
    << <<"N","A">>, <<>>, <<"3">> >> }

HeaderCells == {<<"x">>, <<"x","_","1">>, <<>>, <<" ","x">>}

StructureTexts ==
  {Table(rows) : rows \in SeqsUpTo(StructureRows, MaxTableRows)}
  \cup {Table(<<h, << <<"1">>, <<"2">>, <<"3">> >> >>) :
          h \in SeqsUpTo(HeaderCells, MaxHeaderLen)}
  \cup {EmptyText,
        [empty |-> TRUE, eol |-> "lf", rows |-> <<>>, errors |-> TRUE],
        [empty |-> FALSE, eol |-> "lf", rows |-> <<>>, errors |-> FALSE],
        [empty |-> FALSE, eol |-> "lf",
         rows |-> << <<ColA, ColB>>, <<<<"1">>>> >>, errors |-> TRUE]}

StructureConfigs ==
  {[defaultIngestionConfig EXCEPT !.skipRows = sk, !.headerRow = hr] :
     sk \in 0..MaxOffset, hr \in 0..MaxOffset}

\* f,t with the target values 1,0,1,0,1,0,1,0,1,0
TextTen ==
  Table([i \in 1..11 |->
           IF i = 1 THEN <<ColF, ColT>>
           ELSE <<<<"1">>, IF i % 2 = 0 THEN <<"1">> ELSE <<"0">>>>])

\* f,t with 50 pairwise distinct numeric target values
TextFifty ==
  Table([i \in 1..51 |->
           IF i = 1 THEN <<ColF, ColT>> ELSE <<<<"1">>, DigitsOf(i)>>])

\* f,t with the target value 1 in each of 11 rows
TextEleven ==
  Table([i \in 1..12 |-> IF i = 1 THEN <<ColF, ColT>> ELSE <<<<"1">>, <<"1">>>>])

\* f,t with the target value 1 written as 1, 1e0 and 0x1 over 12 rows
TextSpellings ==
  Table([i \in 1..13 |->
           IF i = 1 THEN <<ColF, ColT>>
           ELSE <<<<"1">>, IF i % 3 = 0 THEN <<"1">>
                          ELSE IF i % 3 = 1 THEN <<"1","e","0">> ELSE <<"0","x","1">>>>])

\* f,t with the target values 0,1,2 over 30 rows
TextThirty ==
  Table([i \in 1..31 |->
           IF i = 1 THEN <<ColF, ColT>> ELSE <<<<"1">>, DigitsOf(i % 3)>>])

ExampleInputs ==
  {[text |-> tx, config |-> defaultIngestionConfig] :
     tx \in {TextTen, TextEleven, TextSpellings, TextThirty, TextFifty,
             TextLong, TextWide}}
  \cup {[text |-> TextSmall,
         config |-> [defaultIngestionConfig EXCEPT !.globalStrategy = Some(st)]] :
          st \in SimpleStrategies}

\* most data rows of an enumerated single-feature column
MaxColumnRows == 4

\* the text f,t whose feature column holds the given cells, the target 1
ColumnTable(cells) ==
  Table(<< <<ColF, ColT>> >> \o [i \in 1..Len(cells) |-> <<cells[i], <<"1">>>>])

\* cells of the mode inputs: two values and the empty cell
ModeCells == {<<"a">>, <<"b">>, <<>>}

\* columns of up to MaxColumnRows cells under the global strategy mode
ModeInputs ==
  {[text |-> ColumnTable(cells),
    config |-> [defaultIngestionConfig EXCEPT !.globalStrategy = Some(Simple("mode"))]] :
     cells \in SeqsUpTo(ModeCells, MaxColumnRows)}

\* target cells of the class-count inputs: two labels, a number and the
\* empty cell
ClassCells == {<<"x">>, <<"y">>, <<"1">>, <<>>}

\* the texts f,t whose target column holds up to MaxColumnRows - 1 cells
ClassInputs ==
  {[text |-> Table(<< <<ColF, ColT>> >>
                   \o [i \in 1..Len(cells) |-> <<<<"1">>, cells[i]>>]),
    config |-> defaultIngestionConfig] :
     cells \in SeqsUpTo(ClassCells, MaxColumnRows - 1)}

\* cells of the mean/median inputs: finite numbers, the infinities, a
\* non-numeric value and the empty cell
NumericCells ==
  { <<"1">>, <<"4">>, <<"x">>, <<>>,
    <<"I","n","f","i","n","i","t","y">>,
    <<"-","I","n","f","i","n","i","t","y">> }

\* columns of up to MaxColumnRows - 1 cells under the global strategies mean
\* and median
NumericInputs ==
  {[text |-> ColumnTable(cells),
    config |-> [defaultIngestionConfig EXCEPT !.globalStrategy = Some(Simple(t))]] :
     cells \in SeqsUpTo(NumericCells, MaxColumnRows - 1),
     t \in {"mean", "median"}}

\* cells of the double-precision inputs: decimal fractions no double holds
\* exactly, an exponent, a radix prefix, a number behind a line feed, a
\* non-numeric value and the empty cell
DoubleCells ==
  { <<"0",".","1">>, <<"0",".","2">>, <<"0",".","3">>, <<"1","e","1">>,
    <<"0","x","1","0">>, <<"\n","4">>, <<>> }

\* columns of up to MaxColumnRows - 1 cells under the global strategies mean
\* and median
DoubleInputs ==
  {[text |-> ColumnTable(cells),
    config |-> [defaultIngestionConfig EXCEPT !.globalStrategy = Some(Simple(t))]] :
     cells \in SeqsUpTo(DoubleCells, MaxColumnRows - 1),
     t \in {"mean", "median"}}

\* cells of the white-space inputs: blank cells and placeholders made of or
\* wrapped in line terminators, form feed, vertical tab, no-break space,
\* ogham space mark, byte order mark, line separator and ideographic space,
\* values wrapped in them, and a placeholder spelt with the Kelvin sign
WhiteSpaceCells ==
  { <<"\n">>, <<" ","N","A"," ">>, <<"\f","?","\r">>,
    <<""," ">>, <<"1","\r">>, <<"﻿","x">>,
    <<"U+2028","n","a","U+3000">>, <<"U","N","U+212A","N","O","W","N">>,
    <<"1">> }

\* header cells of the white-space inputs
WhiteSpaceHeaders == { ColF, <<"\n"," ","f"," ">>, <<"﻿">> }

\* the texts h,t with one data row of white-space cells, under no global
\* strategy, zero and drop-row
WhiteSpaceInputs ==
  {[text |-> Table(<< <<h, ColT>>, <<x, y>> >>),
    config |-> [defaultIngestionConfig EXCEPT !.globalStrategy = g]] :
     h \in WhiteSpaceHeaders, x \in WhiteSpaceCells, y \in WhiteSpaceCells,
     g \in {None, Some(Simple("zero")), Some(Simple("drop-row"))}}

\* column names that are members of Object.prototype
ColConstructor == <<"c","o","n","s","t","r","u","c","t","o","r">>

ColToString == <<"t","o","S","t","r","i","n","g">>

\* headers with a column named like a member of Object.prototype, as a
\* feature and as the default target
ProtoHeaders ==
  { <<ColConstructor, ColT>>, <<ProtoKey, ColT>>,
    <<ColF, ColConstructor>>, <<ColF, ProtoKey>> }

ProtoRows ==
  { << <<>>, <<"1">> >>, << <<"5">>, <<"2">> >>, << <<"5">>, <<>> >> }

\* config.columnStrategies of the prototype inputs: undefined, the empty
\* object, and entries for the named columns
ProtoOverrides ==
  { None, Some(<<>>),
    Some([c \in {ColT} |-> Simple("drop-row")]),
    Some([c \in {ColConstructor} |-> Simple("mean")]),
    Some([c \in {ProtoKey} |-> Simple("zero")]),
    Some([c \in {ProtoKey} |-> Constant(Str(<<"7">>))]) }

\* the parser's default selection, and a feature the header does not hold
ProtoSelections ==
  { [targetColumn |-> None, featureColumns |-> None],
    [targetColumn |-> Some(ColT), featureColumns |-> Some(<<ColToString>>)] }

ProtoInputs ==
  {[text |-> Table(<<h>> \o data),
    config |-> [defaultIngestionConfig EXCEPT
                  !.targetColumn = sel.targetColumn,
                  !.featureColumns = sel.featureColumns,
                  !.globalStrategy = g,
                  !.columnStrategies = ov]] :
     h \in ProtoHeaders, data \in SeqsUpTo(ProtoRows, 2),
     sel \in ProtoSelections,
     g \in {None} \cup {Some(Simple(t)) : t \in {"zero", "drop-row", "mode"}},
     ov \in ProtoOverrides}

\* largest previewLimit of the preview-window inputs
MaxPreviewLimit == 3

\* preview windows shorter than, as long as and longer than the text, over
\* headers at offsets 0 and 1
PreviewLimitConfigs ==
  {[defaultIngestionConfig EXCEPT
      !.skipRows = sk, !.headerRow = hr, !.previewLimit = lim] :
     sk \in {0, 1}, hr \in {0, 1}, lim \in 0..MaxPreviewLimit}

PreviewLimitTexts ==
  {Table(rows) : rows \in SeqsUpTo(StructureRows, MaxTableRows)}

\* the families of inputs
FnInputs ==
  << {[text |-> tx, config |-> c] : tx \in ImputationTexts, c \in ImputationConfigs},
     {[text |-> tx, config |-> c] : tx \in StructureTexts, c \in StructureConfigs},
     {[text |-> tx, config |-> c] :
        tx \in PreviewLimitTexts, c \in PreviewLimitConfigs},
     ExampleInputs,
     ModeInputs,
     ClassInputs,
     NumericInputs,
     DoubleInputs,
     WhiteSpaceInputs,
     ProtoInputs >>

FnInit ==
  /\ \E k \in DOMAIN FnInputs :
       \E in \in FnInputs[k] : rawText = in.text /\ config = in.config
  /\ preview = None
  /\ error = None
  /\ initializedRef = FALSE
  /\ finPreview = None
  /\ pending = {}
  /\ unmounted = FALSE
  /\ result = NoCall
  /\ storeDataset = None
  /\ previewModalOpen = FALSE
  /\ tabError = None

\* generatePreview(rawText, config), then finalize() with that preview
Apply ==
  /\ result = NoCall
  /\ preview' = generatePreview(rawText,
                  [skipRows |-> config.skipRows,
                   headerRow |-> config.headerRow,
                   previewLimit |-> config.previewLimit])
  /\ finPreview' = preview'
  /\ result' = [called |-> TRUE, ret |-> finalize(rawText, config, preview')]
  /\ UNCHANGED <<rawText, config, error, initializedRef, pending, unmounted>>
  /\ UNCHANGED tabVars

FnNext == Apply

FnSpec == FnInit /\ [][FnNext]_vars

----------------------------------------------------------------------------
(* Properties                                                              *)

\* the dataset of the last finalize() call, when it returned one
Returned == result.called /\ result.ret.dataset.def

Failed == result.called /\ result.ret.error.def /\ ~result.ret.dataset.def

Dataset == result.ret.dataset.v

Summary == Dataset.imputationSummary

Distinct(xs) == \A i, j \in 1..Len(xs) : xs[i] = xs[j] => i = j

\* the raw rows of the loaded text and the absolute index of its header row
TotalRows == Len(PapaRows(rawText))

HeaderAbs == config.skipRows + config.headerRow

\* the loaded text is over a dataset size limit
OverLimit ==
  /\ ~IsEmptyText(rawText)
  /\ ~PapaErrors(rawText)
  /\ \/ TotalRows > maxRows
     \/ /\ HeaderAbs < TotalRows
        /\ Len(PapaRows(rawText)[HeaderAbs + 1]) > maxColumns

\* the limits the preview lists
ListedLimits == {preview.limitErrors[i].limit : i \in 1..Len(preview.limitErrors)}

\* C1: whenever the loaded text is over a dataset size limit, finalize
\* returns an error and no dataset, and once the effects have settled the
\* preview of that text has succeeded and lists the violated limits.
C1_FinalizeRefusedOverLimit ==
  /\ (result.called /\ OverLimit) => Failed
  /\ (pending = {} /\ OverLimit /\ HeaderAbs < TotalRows) =>
       /\ preview # None
       /\ preview.success
       /\ (TotalRows > maxRows) = ("maxRows" \in ListedLimits)
       /\ (Len(PapaRows(rawText)[HeaderAbs + 1]) > maxColumns)
            = ("maxColumns" \in ListedLimits)

\* C2: with the effects settled, the target column is not among the feature
\* columns of the config, nor among the features of a dataset finalize
\* returned.
C2_TargetNotAFeature ==
  pending = {} =>
    /\ (config.targetColumn.def /\ config.featureColumns.def) =>
         config.targetColumn.v \notin Range(config.featureColumns.v)
    /\ Returned => Dataset.target \notin Range(Dataset.features)

\* C3: the column names resolved from the header row are pairwise distinct,
\* in the preview (its columns) and in finalize (one key per header cell in
\* every row object).
C3_ColumnNamesDistinct ==
  result.called =>
    /\ (preview # None /\ preview.success) => Distinct(preview.columns)
    /\ Returned =>
         \A i \in 1..Len(Dataset.data) :
           Cardinality(DOMAIN Dataset.data[i])
             = Len(PapaRows(rawText)[HeaderAbs + 1])

\* a final cell holds a value: not undefined, and not empty or a placeholder
\* once trimmed and lower-cased
HoldsValue(v) ==
  /\ v # Undefined
  /\ v.t = "str" => /\ trim(v.s) # <<>>
                    /\ toLowerCase(trim(v.s)) \notin PLACEHOLDERS

\* C4: under globalStrategy drop-row every row of the returned dataset holds
\* a value in every feature column and, when targetDrop holds, in the target
\* column, whatever the overrides.
C4_GlobalDropLeavesNoMissing ==
  (Returned /\ config.globalStrategy = Some(Simple("drop-row"))) =>
    \A i \in 1..Len(Dataset.data) :
      /\ \A k \in 1..Len(Dataset.features) :
           HoldsValue(Get(Dataset.data[i], Dataset.features[k]))
      /\ Summary.targetDrop => HoldsValue(Get(Dataset.data[i], Dataset.target))

C4_Witness ==
  /\ Returned
  /\ config.globalStrategy = Some(Simple("drop-row"))
  /\ DOMAIN OwnStrategies(config) # {}
  /\ Summary.droppedRowCount > 0
  /\ Len(Dataset.data) > 0
  /\ Summary.targetDrop

\* drop-row appears nowhere in the configuration
NoDropRowConfigured ==
  /\ config.globalStrategy # Some(Simple("drop-row"))
  /\ \A c \in DOMAIN OwnStrategies(config) :
       StratType(OwnStrategies(config)[c]) # "drop-row"

\* the raw rows after the header row
RawDataRows == SubSeq(PapaRows(rawText), HeaderAbs + 2, TotalRows)

\* C5: when drop-row appears nowhere in the configuration finalize removes
\* no row: the final row count is the number of data rows after the header
\* and droppedRowCount is 0.
C5_NoDropRowKeepsAllRows ==
  (Returned /\ NoDropRowConfigured) =>
    /\ Len(Dataset.data) = Len(RawDataRows)
    /\ Dataset.numSamples = Len(RawDataRows)
    /\ Summary.droppedRowCount = 0

\* some raw data row has an empty cell or is short of the header
HasEmptyCell ==
  \E i \in 1..Len(RawDataRows) :
    \/ \E k \in 1..Len(RawDataRows[i]) : trim(RawDataRows[i][k]) = <<>>
    \/ Len(RawDataRows[i]) < Len(PapaRows(rawText)[HeaderAbs + 1])

C5_Witness ==
  /\ Returned
  /\ NoDropRowConfigured
  /\ HasEmptyCell
  /\ Len(Dataset.data) > 1
  /\ config.globalStrategy = Some(Simple("mean"))

\* the normalized data rows finalize filters: the parsed row objects after
\* the placeholder and whitespace normalization
NormalizedRows ==
  LET parsed == parseCSVText(rawText,
                  [skipRows |-> config.skipRows, headerRow |-> config.headerRow,
                   targetColumn |-> config.targetColumn,
                   featureColumns |-> config.featureColumns]).data.data
  IN  [i \in 1..Len(parsed) |->
         NormalizeRow(parsed[i], Dataset.features, Dataset.target)]

\* the drop rule as stated: (a), (b), (c), over the summary finalize reports
DropRule(r) ==
  \/ /\ Summary.globalDrop
     /\ \E k \in 1..Len(Dataset.features) : IsMissing(Get(r, Dataset.features[k]))
  \/ \E k \in 1..Len(Summary.dropColumns) : IsMissing(Get(r, Summary.dropColumns[k]))
  \/ Summary.targetDrop /\ IsMissing(Get(r, Dataset.target))

\* the rows the drop rule keeps, in order
KeptByRule(rows) == SelectIdx(rows, {i \in 1..Len(rows) : ~DropRule(rows[i])}, 1)

\* the normalized rows the drop rule keeps, in order
RuleKept == KeptByRule(NormalizedRows)

\* final row x is normalized row r with nothing but missing cells filled in
SameButImputed(x, r) ==
  \A c \in DOMAIN r : ~IsMissing(r[c]) => Get(x, c) = r[c]

\* the final rows are the kept rows, in order, up to imputation
FinalRowsAre(data, kept) ==
  /\ Len(data) = Len(kept)
  /\ \A i \in 1..Len(data) : SameButImputed(data[i], kept[i])

\* C6: finalize drops a normalized data row exactly when (a) globalDrop and
\* a feature cell is missing, (b) a dropCols column is missing, or (c)
\* targetDrop and the target cell is missing; the final rows are the other
\* rows, in order.
C6_DropRule == Returned => FinalRowsAre(Dataset.data, RuleKept)

C6_Witness ==
  /\ Returned
  /\ ~Summary.globalDrop
  /\ Len(Summary.dropColumns) = 1
  /\ Summary.targetDrop
  /\ Len(NormalizedRows) = 2
  /\ Len(Dataset.data) = 1
  /\ DropRule(NormalizedRows[1])
  /\ \E k \in 1..Len(Dataset.features) :
       IsMissing(Get(NormalizedRows[2], Dataset.features[k]))

\* the target cells of a sequence of rows
TargetCells(rows) == [i \in 1..Len(rows) |-> Get(rows[i], Dataset.target)]

\* C7: finalize never imputes the target column: the target value of each
\* final row is the normalized raw target value of the row it comes from,
\* under every strategy given to the target.
C7_TargetNeverImputed ==
  Returned => TargetCells(Dataset.data) = TargetCells(RuleKept)

\* the preview carries nothing beyond the failure itself
PreviewFailedClean ==
  /\ preview # None
  /\ ~preview.success
  /\ DOMAIN preview \subseteq {"success", "error", "config"}

\* skip/header row indices out of range, or empty input
OutOfRangeOrEmpty ==
  \/ IsEmptyText(rawText)
  \/ TotalRows = 0
  \/ config.skipRows >= TotalRows
  \/ HeaderAbs >= TotalRows

\* the header row is in range and is the last row
NoRowsAfterHeader == TotalRows > 0 /\ HeaderAbs = TotalRows - 1

\* C8 as stated: for each structural error, the case of no data rows after
\* the header row included, preview generation and finalize both report a
\* failure with an error message and no partial result.
C8_StructuralErrorsFailBoth ==
  (result.called /\ (OutOfRangeOrEmpty \/ NoRowsAfterHeader)) =>
    /\ PreviewFailedClean
    /\ Failed

\* C8 as amended: empty input and out-of-range skipRows or header row fail
\* in both paths with an error message and no partial result; no data rows
\* after the header row fails in finalize, with an error and no dataset,
\* while the preview of a text the row splitter accepts succeeds.
C8_StructuralErrors ==
  /\ (result.called /\ OutOfRangeOrEmpty) => (PreviewFailedClean /\ Failed)
  /\ (result.called /\ NoRowsAfterHeader) =>
       /\ Failed
       /\ ~PapaErrors(rawText) => (preview # None /\ preview.success)

C8_Witness ==
  /\ result.called
  /\ ~PapaErrors(rawText)
  /\ NoRowsAfterHeader
  /\ TotalRows > 1
  /\ Failed
  /\ preview.success

TenValues == [i \in 1..10 |-> Str(IF i % 2 = 1 THEN <<"1">> ELSE <<"0">>)]

\* a final target column of 50 pairwise distinct numeric values
FiftyDistinct ==
  /\ Len(Dataset.data) = 50
  /\ Distinct(TargetCells(Dataset.data))
  /\ \A i \in 1..50 : ~isNaN(Number(TargetCells(Dataset.data)[i]))
  /\ Distinct([i \in 1..50 |-> Number(TargetCells(Dataset.data)[i])])

\* C9 as stated: the ten target values 1,0,1,0,1,0,1,0,1,0 are typed
\* classification with numClasses = 2, and 50 pairwise distinct numeric
\* target values are typed regression.
C9_TenValuesClassification ==
  Returned =>
    /\ TargetCells(Dataset.data) = TenValues =>
         (Dataset.targetType = "classification" /\ Dataset.numClasses = Some(2))
    /\ FiftyDistinct => Dataset.targetType = "regression"

\* C9 as amended: the ten target values 1,0,1,0,1,0,1,0,1,0 are typed
\* regression with numClasses undefined (2 distinct values are not fewer
\* than 0.1 x 10), and 50 pairwise distinct numeric target values are typed
\* regression.
C9_TenValuesRegression ==
  Returned =>
    /\ TargetCells(Dataset.data) = TenValues =>
         (Dataset.targetType = "regression" /\ Dataset.numClasses = None)
    /\ FiftyDistinct => Dataset.targetType = "regression"

C9_Witness ==
  /\ Returned
  /\ TargetCells(Dataset.data) = TenValues
  /\ Dataset.numSamples = 10

\* the scenario of C10: the text a,b / 1,<empty> / 2,3 under globalStrategy
\* zero and an otherwise default configuration
ZeroScenario ==
  /\ result.called
  /\ rawText = TextSmall
  /\ config = [defaultIngestionConfig EXCEPT !.globalStrategy = Some(Simple("zero"))]

\* a row object {a: x, b: y}
RowAB(x, y) == [c \in {ColA, ColB} |-> IF c = ColA THEN x ELSE y]

\* C10 as stated: the scenario returns the rows [{a:1,b:0},{a:2,b:3}] with
\* droppedRowCount = 0.
C10_ZeroScenarioNumbers ==
  ZeroScenario =>
    /\ Returned
    /\ Dataset.data = << RowAB(Num(1, 1), Num(0, 1)), RowAB(Num(2, 1), Num(3, 1)) >>
    /\ Summary.droppedRowCount = 0

\* C10 as amended: the scenario returns the rows [{a:"1",b:""},
\* {a:"2",b:"3"}] with droppedRowCount = 0: cells stay strings, and b, the
\* default target, is not filled.
C10_ZeroScenario ==
  ZeroScenario =>
    /\ Returned
    /\ Dataset.data = << RowAB(Str(<<"1">>), Str(<<>>)),
                         RowAB(Str(<<"2">>), Str(<<"3">>)) >>
    /\ Dataset.target = ColB
    /\ Dataset.features = <<ColA>>
    /\ Summary.droppedRowCount = 0

C10_Witness == ZeroScenario /\ Returned /\ Len(Dataset.data) = 2

\* C11: previewLimit bounds the preview only: previewRecords are the first
\* min(previewLimit, total rows) raw rows under the resolved columns and
\* rawRowCount is the full row count, while finalize reads every row after
\* the header: originalRowCount = totalRows - (skipRows + headerRow + 1).
C11_PreviewLimitBoundsPreviewOnly ==
  result.called =>
    /\ (preview # None /\ preview.success) =>
         /\ Len(preview.previewRecords) = Min(config.previewLimit, TotalRows)
         /\ \A k \in 1..Len(preview.previewRecords) :
              preview.previewRecords[k]
                = RowObject(preview.columns, PapaRows(rawText)[k])
         /\ preview.rawRowCount = TotalRows
    /\ Returned => Summary.originalRowCount = TotalRows - (HeaderAbs + 1)

\* a preview window shorter than the text, and a finalize that read rows
\* beyond the window
C11_Witness ==
  /\ Returned
  /\ preview.success
  /\ config.previewLimit = 1
  /\ Len(preview.previewRecords) = 1
  /\ TotalRows = 3
  /\ Summary.originalRowCount = 2

\* the distinct non-missing target values of the final rows
FinalTargetValues ==
  {Get(Dataset.data[i], Dataset.target) : i \in 1..Len(Dataset.data)}
    \ {Str(<<>>), Undefined}

\* C12: in every dataset finalize returns, numClasses is defined exactly
\* when targetType is classification, and is then the number of distinct
\* non-missing target values of the final rows.
C12_NumClasses ==
  Returned =>
    /\ Dataset.numClasses.def <=> (Dataset.targetType = "classification")
    /\ Dataset.numClasses.def =>
         Dataset.numClasses.v = Cardinality(FinalTargetValues)

\* a classification target with two classes, next to a missing target cell
\* that is not counted
C12_Witness ==
  /\ Returned
  /\ Dataset.targetType = "classification"
  /\ Dataset.numClasses = Some(2)
  /\ Len(Dataset.data) = 3
  /\ \E i \in 1..3 : IsMissing(Get(Dataset.data[i], Dataset.target))

\* number of occurrences of v in xs
Occurrences(xs, v) == Cardinality({i \in 1..Len(xs) : xs[i] = v})

\* index of the first occurrence of v in xs
FirstIndex(xs, v) == CHOOSE i \in 1..Len(xs) : xs[i] = v /\ \A j \in 1..(i - 1) : xs[j] # v

\* v occurs in xs at least as often as every other value, and before every
\* value that occurs as often
MostFrequentFirstSeen(xs, v) ==
  /\ \E i \in 1..Len(xs) : xs[i] = v
  /\ \A j \in 1..Len(xs) :
       /\ Occurrences(xs, xs[j]) <= Occurrences(xs, v)
       /\ Occurrences(xs, xs[j]) = Occurrences(xs, v) => FirstIndex(xs, v) <= j

\* the features of the returned dataset whose effective strategy is of type
FeaturesWith(types) ==
  {c \in Range(Dataset.features) : StratType(Effective(config, c)) \in types}

\* the replacement of every mode feature with a non-missing value is a most
\* frequent value of the column, compared as strings, and the first-seen
\* one among them
ModeReplacementsIn(rows) ==
  \A c \in FeaturesWith({"mode"}) :
    Len(PresentValues(rows, c)) > 0 =>
      /\ Replacement(rows, c, Effective(config, c)).def
      /\ MostFrequentFirstSeen(Strings(PresentValues(rows, c)),
                               Replacement(rows, c, Effective(config, c)).v)

\* C13: for a feature with effective strategy mode and at least one
\* non-missing value, the replacement has the maximum occurrence count among
\* the column's non-missing normalized values, and among the values tied for
\* the maximum it is the one that occurs first in row order.
C13_ModeReplacement == Returned => ModeReplacementsIn(NormalizedRows)

\* a column b, a, <empty>, a: a is more frequent than the first-seen b and
\* fills the empty cell
C13_WitnessMostFrequent ==
  /\ Returned
  /\ FeaturesWith({"mode"}) = {ColF}
  /\ PresentValues(NormalizedRows, ColF) = <<Str(<<"b">>), Str(<<"a">>), Str(<<"a">>)>>
  /\ Len(Dataset.data) = 4
  /\ Dataset.data[3][ColF] = Str(<<"a">>)

\* a column b, a, <empty>: a tie that the first-seen b wins, and b fills the
\* empty cell
C13_Witness ==
  /\ Returned
  /\ FeaturesWith({"mode"}) = {ColF}
  /\ PresentValues(NormalizedRows, ColF) = <<Str(<<"b">>), Str(<<"a">>)>>
  /\ Len(Dataset.data) = 3
  /\ Dataset.data[3][ColF] = Str(<<"b">>)

\* the numeric non-missing values of column c
NumericValues(rows, c) == NumericOf(Numbers(PresentValues(rows, c)))

\* min <= r <= max over the values of numeric
WithinRange(numeric, r) ==
  /\ \E i \in 1..Len(numeric) : NumLeq(numeric[i], r)
  /\ \E i \in 1..Len(numeric) : NumLeq(r, numeric[i])

\* the replacement of every mean or median feature with a numeric value lies
\* between the least and the greatest numeric value of the column
ReplacementsWithinRange(rows) ==
  \A c \in FeaturesWith({"mean", "median"}) :
    Len(NumericValues(rows, c)) > 0 =>
      /\ Replacement(rows, c, Effective(config, c)).def
      /\ Replacement(rows, c, Effective(config, c)).v.t \in {"num", "inf", "nan"}
      /\ WithinRange(NumericValues(rows, c),
                     Replacement(rows, c, Effective(config, c)).v)

\* C14: for a feature with effective strategy mean or median whose column
\* holds at least one numeric non-missing value, the replacement r satisfies
\* min <= r <= max over the numeric non-missing values of the column.
C14_ReplacementWithinRange == Returned => ReplacementsWithinRange(NormalizedRows)

\* the column 0.1, 0.1, 0.1 under mean: the sum is rounded to
\* 0.30000000000000004 and the mean to 0.10000000000000002, a finite
\* number above the greatest value of the column
C14_RoundedMean ==
  /\ Returned
  /\ config.globalStrategy = Some(Simple("mean"))
  /\ ColF \in Range(Dataset.features)
  /\ PresentValues(NormalizedRows, ColF)
       = [i \in 1..3 |-> Str(<<"0", ".", "1">>)]
  /\ IsNum(Replacement(NormalizedRows, ColF, Effective(config, ColF)).v)
  /\ NumLess(Number(Str(<<"0", ".", "1">>)),
             Replacement(NormalizedRows, ColF, Effective(config, ColF)).v)

\* C20: for a feature with effective strategy mean or median whose column
\* has non-missing values none of which is numeric, the replacement is 0.
C20_NonNumericFallbackZero ==
  Returned =>
    \A c \in FeaturesWith({"mean", "median"}) :
      (/\ Len(PresentValues(NormalizedRows, c)) > 0
       /\ Len(NumericValues(NormalizedRows, c)) = 0)
        => Replacement(NormalizedRows, c, Effective(config, c)) = Some(Num(0, 1))

\* what the code does instead: the first non-missing value is the replacement
C20_NonNumericFallbackFirstValue ==
  Returned =>
    \A c \in FeaturesWith({"mean", "median"}) :
      (/\ Len(PresentValues(NormalizedRows, c)) > 0
       /\ Len(NumericValues(NormalizedRows, c)) = 0)
        => Replacement(NormalizedRows, c, Effective(config, c))
             = Some(PresentValues(NormalizedRows, c)[1])

\* number of rows the recorded mechanisms (a), (b), (c) remove
DroppedByRule(rows) == Cardinality({i \in 1..Len(rows) : DropRule(rows[i])})

\* the arithmetic of the summary over the normalized rows
SummaryAccounts(rows) ==
  /\ Summary.originalRowCount = Len(rows)
  /\ Dataset.numSamples = Len(Dataset.data)
  /\ Summary.droppedRowCount = Summary.originalRowCount - Dataset.numSamples
  /\ Summary.droppedRowCount >= 0
  /\ Summary.dropApplied <=>
       (Summary.globalDrop \/ Len(Summary.dropColumns) > 0 \/ Summary.targetDrop)
  /\ Summary.droppedRowCount > 0 => Summary.dropApplied
  /\ Summary.droppedRowCount = DroppedByRule(rows)

\* C15: in the imputationSummary of every finalized dataset droppedRowCount =
\* originalRowCount - final row count (= numSamples) and is >= 0; dropApplied
\* is true whenever a drop mechanism is in force, so droppedRowCount > 0
\* implies dropApplied; dropColumns, globalDrop and targetDrop are the
\* mechanisms that account for the dropped rows.
C15_SummaryAccounts == Returned => SummaryAccounts(NormalizedRows)

\* a row dropped by the target mechanism alone
C15_Witness ==
  /\ Returned
  /\ Summary.droppedRowCount = 1
  /\ Summary.originalRowCount = 2
  /\ Summary.dropApplied
  /\ ~Summary.globalDrop
  /\ Summary.dropColumns = <<>>
  /\ Summary.targetDrop

\* the effects have settled on a successful preview of the loaded text
SettledOnPreview ==
  /\ pending = {}
  /\ ~IsEmptyText(rawText)
  /\ preview # None
  /\ preview.success
  /\ Len(preview.columns) > 0

\* the config holds no choice of a target or of features: only reset() and
\* the initial state leave both undefined, every operator action on the
\* selection defines at least one of them
NothingChosen == ~config.targetColumn.def /\ ~config.featureColumns.def

\* targetColumn is the last resolved column, featureColumns the others
DefaultSelection(columns) ==
  /\ config.targetColumn = Some(columns[Len(columns)])
  /\ config.featureColumns =
       Some(FilterSeq(columns, Range(columns) \ {columns[Len(columns)]}))

\* C16: in every ingestion session, also one started by loadRawText after a
\* reset, once the preview of the loaded text has succeeded and the operator
\* has chosen no target or features, targetColumn is the last resolved
\* column and featureColumns are all resolved columns except the target.
C16_DefaultSelection ==
  (SettledOnPreview /\ NothingChosen) => DefaultSelection(preview.columns)

\* the 0-based raw indices of the data rows of the preview window whose
\* normalized row finalize drops
FinalizeDrops(rows) ==
  {rIdx \in preview.dataStartIndex..(Len(preview.previewRecords) - 1) :
     DropRule(rows[rIdx - preview.dataStartIndex + 1])}

\* C17: the preview and finalize agree on row dropping: for the same text
\* and configuration a data row inside the preview window is marked in
\* rowsToDrop if and only if finalize drops that row.
C17_PreviewAgreesWithFinalize ==
  (Returned /\ preview # None /\ preview.success) =>
    rowsToDrop(config, preview) = FinalizeDrops(NormalizedRows)

\* the disagreement on f,g,t / 1,x,<blank> with drop-row on f alone:
\* finalize drops the row for its blank target, the preview does not mark it
C17_Disagreement ==
  /\ Returned
  /\ config.targetColumn = Some(ColT)
  /\ config.featureColumns = Some(<<ColF, ColG>>)
  /\ ~config.globalStrategy.def
  /\ DOMAIN OwnStrategies(config) = {ColF}
  /\ Len(NormalizedRows) = 1
  /\ rowsToDrop(config, preview) = {}
  /\ FinalizeDrops(NormalizedRows) = {1}

\* the strategy of the target of the returned dataset: its entry in
\* columnStrategies, else the global strategy
TargetStrategy ==
  IF Dataset.target \in DOMAIN OwnStrategies(config)
  THEN Some(OwnStrategies(config)[Dataset.target])
  ELSE config.globalStrategy

\* targetDrop as stated, for the target strategy ts
StatedTargetDrop(ts) ==
  IF config.globalStrategy = Some(Simple("drop-row")) THEN TRUE
  ELSE IF ts.def THEN StratType(ts.v) = "drop-row"
  ELSE Len(Summary.dropColumns) > 0

\* C18: targetDrop is true if globalDrop is true; otherwise it is true if
\* the target's effective strategy (its override, else the global strategy)
\* is drop-row; otherwise, only when the target has no strategy at all, it
\* is true exactly when dropCols is non-empty; in all remaining cases it is
\* false.
C18_TargetDrop == Returned => (Summary.targetDrop <=> StatedTargetDrop(TargetStrategy))

\* the same for the configurations that name their target
C18_TargetDropNamedTarget ==
  (Returned /\ config.targetColumn.def) =>
    (Summary.targetDrop <=> StatedTargetDrop(TargetStrategy))

\* the effective strategy of a column as stated: its entry in
\* columnStrategies, else the global strategy, else leave-as-is
StatedEffective(c) ==
  IF c \in DOMAIN OwnStrategies(config) THEN OwnStrategies(config)[c]
  ELSE IF config.globalStrategy.def THEN config.globalStrategy.v
  ELSE Simple("leave-as-is")

\* a missing feature cell of a kept row is treated by the stated strategy of
\* its column: left missing, set to 0, or set to the constant
TreatedAsStated(x, r, c) ==
  IsMissing(Get(r, c)) =>
    /\ StatedEffective(c).type = "leave-as-is" => IsMissing(Get(x, c))
    /\ StatedEffective(c).type = "zero" => Get(x, c) = Num(0, 1)
    /\ StatedEffective(c).type = "constant" => Get(x, c) = StatedEffective(c).value

\* finalize resolves and applies the stated strategies over the kept rows
StrategiesResolved(kept) ==
  /\ \A c \in Range(Dataset.features) : Effective(config, c) = StatedEffective(c)
  /\ Summary.dropColumns =
       FilterSeq(Dataset.features,
                 {c \in Range(Dataset.features) : StatedEffective(c).type = "drop-row"})
  /\ Summary.globalDrop <=> config.globalStrategy = Some(Simple("drop-row"))
  /\ Len(Dataset.data) = Len(kept)
  /\ \A i \in 1..Len(kept) : \A c \in Range(Dataset.features) :
       TreatedAsStated(Dataset.data[i], kept[i], c)

\* C19: for every feature column the effective strategy used by finalize is
\* the column's entry in columnStrategies if one is present, else
\* globalStrategy, else leave-as-is; dropCols is exactly the features whose
\* effective strategy is drop-row, and globalDrop is true iff globalStrategy
\* is drop-row.
C19_EffectiveStrategies == Returned => StrategiesResolved(RuleKept)

\* the same for the datasets none of whose features is named like a member
\* of Object.prototype
C19_OwnNamesResolved ==
  (Returned /\ Range(Dataset.features) \cap ObjectPrototypeNames = {})
    => StrategiesResolved(RuleKept)

\* an override beats the global strategy: under the global strategy zero the
\* empty cell of f is filled with the constant 7 of its override
C19_OverrideFirst ==
  /\ Returned
  /\ config.globalStrategy = Some(Simple("zero"))
  /\ ColF \in DOMAIN OwnStrategies(config)
  /\ OwnStrategies(config)[ColF] = Constant(Str(<<"7">>))
  /\ ColF \in Range(Dataset.features)
  /\ \E i \in 1..Len(Dataset.data) :
       /\ IsMissing(Get(NormalizedRows[i], ColF))
       /\ Dataset.data[i][ColF] = Str(<<"7">>)

\* the text constructor,t / <empty>,1 / 5,2 under the global strategy zero
\* and an empty columnStrategies object: the feature constructor has no
\* entry, finalize takes Object.prototype.constructor for its strategy and
\* leaves its empty cell empty
C19_InheritedStrategy ==
  /\ Returned
  /\ config.globalStrategy = Some(Simple("zero"))
  /\ config.columnStrategies = Some(<<>>)
  /\ Dataset.features = <<ColConstructor>>
  /\ Effective(config, ColConstructor) = Inherited(ColConstructor)
  /\ Len(Dataset.data) = 2
  /\ Dataset.data[1][ColConstructor] = Str(<<>>)

\* the non-missing target values of the final rows, in row order
FinalTargetSeq ==
  SelectIdx(TargetCells(Dataset.data),
            {i \in 1..Len(Dataset.data) : ~IsMissing(TargetCells(Dataset.data)[i])}, 1)

\* the distinct numbers among the values
DistinctNumbers(values) == {SameValueZero(Number(values[i])) : i \in 1..Len(values)}

\* the target type as stated, over the non-missing target values
StatedTargetType(values) ==
  IF \E i \in 1..Len(values) : isNaN(Number(values[i])) THEN "classification"
  ELSE IF /\ Cardinality(DistinctNumbers(values)) <= 10
          /\ 10 * Cardinality(DistinctNumbers(values)) < Len(values)
       THEN "classification"
  ELSE "regression"

\* C21: targetType of a finalized dataset is classification if any
\* non-missing final target value is non-numeric; otherwise it is
\* classification exactly when the number of distinct numeric target values
\* is <= 10 and strictly less than 0.1 times the number of non-missing target
\* values, and regression otherwise.
C21_TargetType == Returned => Dataset.targetType = StatedTargetType(FinalTargetSeq)

\* eleven numeric target values, all 1: one distinct value is fewer than 1.1
C21_Witness ==
  /\ Returned
  /\ Len(FinalTargetSeq) = 11
  /\ DistinctNumbers(FinalTargetSeq) = {Num(1, 1)}
  /\ Dataset.targetType = "classification"

\* thirty numeric target values, three of them distinct: 30 * 0.1 is 3, 3 is
\* not less than it and the type is regression
C21_ThirtyValues ==
  /\ Returned
  /\ Len(FinalTargetSeq) = 30
  /\ Cardinality(DistinctNumbers(FinalTargetSeq)) = 3
  /\ NumTimesInt(Tenth, 30) = Num(3, 1)
  /\ Dataset.targetType = "regression"

\* the data rows parseCSVText hands to finalize
ParsedRows ==
  parseCSVText(rawText,
    [skipRows |-> config.skipRows, headerRow |-> config.headerRow,
     targetColumn |-> config.targetColumn,
     featureColumns |-> config.featureColumns]).data.data

\* the placeholder tokens as stated
StatedPlaceholders ==
  { <<"n","a">>, <<"n","/","a">>, <<"n","u","l","l">>, <<"n","o","n","e">>,
    <<"n","i","l">>, <<"n","a","n">>, <<"?">>, <<"-">>,
    <<"m","i","s","s","i","n","g">>, <<"u","n","k","n","o","w","n">>, <<".">> }

\* the trimmed, lower-cased value of the cell is empty or a placeholder
BlankOrPlaceholder(v) ==
  /\ v.t = "str"
  /\ toLowerCase(trim(v.s)) \in StatedPlaceholders \cup {<<>>}

\* the row as stated: blank and placeholder cells of the selected columns
\* are the empty string, every other cell keeps its raw value
StatedNormalized(r, selected) ==
  [c \in DOMAIN r |->
     IF c \in selected /\ BlankOrPlaceholder(r[c]) THEN Str(<<>>) ELSE r[c]]

\* no strategy of the configuration drops or imputes
LeaveAsIsOnly ==
  /\ config.globalStrategy \in {None, Some(Simple("leave-as-is"))}
  /\ \A c \in DOMAIN OwnStrategies(config) :
       OwnStrategies(config)[c] = Simple("leave-as-is")

\* the normalized rows are the parsed rows normalized as stated, and they
\* are the final rows when nothing drops or imputes
NormalizedAsStated(parsed, normalized) ==
  /\ Len(normalized) = Len(parsed)
  /\ \A i \in 1..Len(parsed) :
       normalized[i] =
         StatedNormalized(parsed[i], Range(Dataset.features) \cup {Dataset.target})
  /\ LeaveAsIsOnly => Dataset.data = normalized

\* C22: the normalization pass of finalize, under every strategy including
\* leave-as-is, rewrites to the empty string exactly the feature and target
\* cells whose trimmed, lower-cased value is empty or one of the placeholder
\* tokens; every other cell, and every cell of a column that is neither a
\* feature nor the target, keeps its raw value.
C22_Normalization == Returned => NormalizedAsStated(ParsedRows, NormalizedRows)

\* under leave-as-is, target f and feature t: the cells " ? " of f and "null"
\* of t become empty, the cell "NA" of the unselected column g is kept
C22_Witness ==
  /\ Returned
  /\ LeaveAsIsOnly
  /\ Dataset.target = ColF
  /\ Dataset.features = <<ColT>>
  /\ Len(Dataset.data) = 2
  /\ ParsedRows[1][ColF] = Str(<<" ","?"," ">>)
  /\ ParsedRows[1][ColT] = Str(<<"n","u","l","l">>)
  /\ Dataset.data[1][ColF] = Str(<<>>)
  /\ Dataset.data[1][ColT] = Str(<<>>)
  /\ Dataset.data[2][ColG] = Str(<<"N","A">>)

\* the preview succeeded
PreviewOk == result.called /\ preview # None /\ preview.success

\* the raw cells of column c in the data rows of the preview window
DataCells(c) ==
  DataRegionValues(preview.previewRecords, preview.dataStartIndex, c)

\* the cells of column c that are neither missing nor a placeholder
ValidCells(c) ==
  SelectIdx(DataCells(c),
            {k \in 1..Len(DataCells(c)) : CellFlag(DataCells(c)[k].s) = "valid"}, 1)

\* the inferred type as stated, for the observed and the valid cells
StatedInferredType(type, observed, valid) ==
  IF Len(observed) = 0 THEN type = "empty"
  ELSE IF Len(valid) = 0 THEN type \in {"numeric", "categorical"}
  ELSE IF \A k \in 1..Len(valid) : ~isNaN(Number(valid[k])) THEN type = "numeric"
  ELSE IF \A k \in 1..Len(valid) : isNaN(Number(valid[k])) THEN type = "categorical"
  ELSE type = "mixed"

\* C23: in the preview statistics a column's inferredType is empty if no
\* data-row values were observed in the preview window; otherwise numeric if
\* every value that is neither missing nor a placeholder parses as a number,
\* categorical if none of them does, and mixed otherwise.
C23_InferredType ==
  PreviewOk =>
    \A c \in Range(preview.columns) :
      StatedInferredType(preview.stats[c].inferredType, DataCells(c), ValidCells(c))

\* the column g of f,g,t / 1,2,0 / 3,NA,1: its only valid cell is a number
\* and its type is mixed
C23_PlaceholderMakesMixed ==
  /\ PreviewOk
  /\ ColG \in Range(preview.columns)
  /\ DataCells(ColG) = <<Str(<<"2">>), Str(<<"N","A">>)>>
  /\ preview.stats[ColG].inferredType = "mixed"

\* number of data-row cells of column c that cellFlags gives the flag
Flagged(c, flag) ==
  Cardinality({r \in (preview.dataStartIndex + 1)..Len(preview.cellFlags) :
                 preview.cellFlags[r][IndexOf(preview.columns, c)] = flag})

\* C24: the per-column statistics of the preview agree with its per-cell
\* classification: for every column, stats.missing is the number of data-row
\* cells (preview rows at or after dataStartIndex) flagged missing in
\* cellFlags, and stats.placeholderMissing the number flagged placeholder.
C24_StatsAgreeWithFlags ==
  PreviewOk =>
    \A c \in Range(preview.columns) :
      /\ preview.stats[c].missing = Flagged(c, "missing")
      /\ preview.stats[c].placeholderMissing = Flagged(c, "placeholder")

\* the column t of f,g,t / 1,x,<blank>: its blank cell is flagged missing
\* and stats.missing is 0
C24_BlankNotCounted ==
  /\ PreviewOk
  /\ preview.columns = <<ColF, ColG, ColT>>
  /\ DataCells(ColT) = <<Str(<<" ">>)>>
  /\ Flagged(ColT, "missing") = 1
  /\ preview.stats[ColT].missing = 0

\* the header row selected by skipRows and headerRow
HeaderCellsOf(text) == PapaRows(text)[HeaderAbs + 1]

\* the trimmed header cell, "col" when it is empty
StatedBase(h) == IF trim(h) = <<>> THEN <<"c","o","l">> ELSE trim(h)

RECURSIVE StatedNames(_, _)
\* header resolution as stated, cell by cell from the left: done holds the
\* base names already seen; the k-th later duplicate of a base is base_k
StatedNames(cells, done) ==
  IF cells = <<>> THEN <<>>
  ELSE <<IF Occurrences(done, StatedBase(Head(cells))) = 0
         THEN StatedBase(Head(cells))
         ELSE StatedBase(Head(cells)) \o <<"_">>
                \o DigitsOf(Occurrences(done, StatedBase(Head(cells))))>>
       \o StatedNames(Tail(cells), Append(done, StatedBase(Head(cells))))

\* both paths resolve the header to names: the preview lists them, the rows
\* finalize parses are keyed by them (no object holds the key __proto__) and
\* the default target is the last
ResolvedTo(names, parsed) ==
  /\ PreviewOk => preview.columns = names
  /\ Returned =>
       /\ \A i \in 1..Len(parsed) : DOMAIN parsed[i] = Range(names) \ {ProtoKey}
       /\ ~config.targetColumn.def => Dataset.target = names[Len(names)]
       /\ (~config.targetColumn.def /\ ~config.featureColumns.def) =>
            Dataset.features = FilterSeq(names, Range(names) \ {names[Len(names)]})

\* C25: header resolution trims each header cell, replaces an empty trimmed
\* name by "col", keeps the first occurrence of a base name unchanged and
\* renames its k-th later duplicate (k >= 1) to base_k, preserving column
\* order; the header x,x,y resolves to x,x_1,y; the preview and finalize
\* resolve identically.
C25_HeaderResolution ==
  (PreviewOk \/ Returned) =>
    ResolvedTo(StatedNames(HeaderCellsOf(rawText), <<>>), ParsedRows)

\* the header x,x,y resolved to x,x_1,y by the preview and by finalize
C25_Witness ==
  /\ PreviewOk
  /\ Returned
  /\ HeaderCellsOf(rawText) = << <<"x">>, <<"x">>, <<"y">> >>
  /\ preview.columns = << <<"x">>, <<"x","_","1">>, <<"y">> >>
  /\ Dataset.features = << <<"x">>, <<"x","_","1">> >>
  /\ Dataset.target = <<"y">>

\* the column names resolved from the header row that the current skipRows
\* and headerRow select
CurrentColumns == Range(ResolveColumns(HeaderCellsOf(rawText)))

\* C26: after any sequence of skipRows/headerRow edits, target/feature
\* selections and preview regenerations, every feature name and the target
\* name of a dataset returned by finalize is one of the column names resolved
\* from the header row selected by the current skipRows and headerRow.
C26_NamesAreCurrentColumns ==
  Returned =>
    /\ Dataset.target \in CurrentColumns
    /\ Range(Dataset.features) \subseteq CurrentColumns

\* the text a,b / 1,<empty> / 2,3 with headerRow moved to 1 after the
\* auto-init: the dataset names the target b and the feature a of the
\* former header, the current header resolves to 1 and col
C26_StaleNames ==
  /\ Returned
  /\ rawText = TextSmall
  /\ config.skipRows = 0
  /\ config.headerRow = 1
  /\ CurrentColumns = {<<"1">>, <<"c","o","l">>}
  /\ Dataset.target = ColB
  /\ Dataset.features = <<ColA>>

\* final row x is the normalized row r up to feature cells that are missing
\* in r
OnlyMissingFeaturesChanged(x, r) ==
  /\ DOMAIN r \subseteq DOMAIN x
  /\ DOMAIN x \subseteq DOMAIN r \cup Range(Dataset.features)
  /\ \A c \in DOMAIN x :
       \/ c \in Range(Dataset.features) /\ IsMissing(Get(r, c))
       \/ x[c] = Get(r, c)

RECURSIVE Embeds(_, _)
\* data is, row by row and in order, a subsequence of rows up to the
\* missing feature cells
Embeds(data, rows) ==
  IF data = <<>> THEN TRUE
  ELSE IF rows = <<>> THEN FALSE
  ELSE IF OnlyMissingFeaturesChanged(Head(data), Head(rows))
       THEN Embeds(Tail(data), Tail(rows))
       ELSE Embeds(data, Tail(rows))

\* the parsed rows with the blank and placeholder cells of the features
\* emptied and every other cell, the target cell included, left raw
FeatureNormalized(parsed) ==
  [i \in 1..Len(parsed) |-> StatedNormalized(parsed[i], Range(Dataset.features))]

\* C27 as stated: the rows of a dataset returned by finalize are an
\* order-preserving subsequence of the data rows after the header, and in a
\* kept row only feature cells that are missing after normalization differ
\* from the data row.
C27_OnlyFeatureCellsChange ==
  Returned => Embeds(Dataset.data, FeatureNormalized(ParsedRows))

\* C27 as amended: the rows of a dataset returned by finalize are an
\* order-preserving subsequence of the data rows after the header as
\* normalized (blank and placeholder cells of the features and of the target
\* emptied): finalize never reorders, duplicates or invents rows, and in a
\* kept row it changes, beyond the normalization, only feature cells that
\* are missing after normalization.
C27_RowsAreSubsequence ==
  Returned =>
    /\ Len(NormalizedRows) = Len(RawDataRows)
    /\ Embeds(Dataset.data, NormalizedRows)

\* of f,g,t / <empty>,4,1 / 3,NA,1 with drop-row on f and the global
\* strategy zero the first row is dropped, the second is kept and only its
\* missing g becomes 0
C27_Witness ==
  /\ Returned
  /\ Dataset.features = <<ColF, ColG>>
  /\ Len(NormalizedRows) = 2
  /\ IsMissing(NormalizedRows[1][ColF])
  /\ IsMissing(NormalizedRows[2][ColG])
  /\ Len(Dataset.data) = 1
  /\ Dataset.data[1][ColF] = NormalizedRows[2][ColF]
  /\ Dataset.data[1][ColT] = NormalizedRows[2][ColT]
  /\ Dataset.data[1][ColG] = Num(0, 1)

\* the replacement of a mean, median or mode feature is defined and not
\* empty, and it is 0 when the column has no non-missing value
ReplacementsDefined(rows) ==
  \A c \in FeaturesWith({"mean", "median", "mode"}) :
    /\ Replacement(rows, c, Effective(config, c)).def
    /\ ~IsMissing(Replacement(rows, c, Effective(config, c)).v)
    /\ Len(PresentValues(rows, c)) = 0
         => Replacement(rows, c, Effective(config, c)) = Some(Num(0, 1))

\* no row of the dataset has a missing cell in a column of cols
NoMissingIn(data, cols) ==
  \A i \in 1..Len(data) : \A c \in cols : ~IsMissing(Get(data[i], c))

\* C28: in every dataset returned by finalize no row has a missing (empty)
\* value in a feature column whose effective strategy is zero, mean, median
\* or mode: zero fills with 0, and mean, median and mode always yield a
\* defined non-empty replacement, 0 when the column has no non-missing value.
C28_NoMissingAfterImputation ==
  Returned =>
    /\ NoMissingIn(Dataset.data, FeaturesWith({"zero", "mean", "median", "mode"}))
    /\ ReplacementsDefined(NormalizedRows)

\* a mean, median or mode feature whose column has no non-missing value:
\* both of its cells are filled with 0
C28_Witness ==
  /\ Returned
  /\ ColF \in FeaturesWith({"mean", "median", "mode"})
  /\ Len(NormalizedRows) = 2
  /\ Len(PresentValues(NormalizedRows, ColF)) = 0
  /\ Len(Dataset.data) = 2
  /\ Dataset.data[1][ColF] = Num(0, 1)
  /\ Dataset.data[2][ColF] = Num(0, 1)

\* every data row of the loaded text lies inside the preview window
AllDataRowsPreviewed == Len(preview.previewRecords) = TotalRows

\* the replacement the preview shows for column c equals the replacement
\* finalize applies to it
SameReplacement(rows, c) ==
  replacementValues(config, preview, c) = Replacement(rows, c, Effective(config, c))

\* C29: when all data rows lie inside the preview window, the replacement
\* value the preview shows for a feature column under an effective strategy
\* of zero, constant, mean, median or mode equals the replacement value
\* finalize applies to that column for the same text and configuration.
C29_PreviewReplacementAgrees ==
  (PreviewOk /\ Returned /\ AllDataRowsPreviewed) =>
    \A c \in FeaturesWith({"zero", "constant", "mean", "median", "mode"}) :
      SameReplacement(NormalizedRows, c)

\* a mean, median or mode feature whose column has a non-missing value in
\* the window: the two replacements exist, and here they agree
C29_AgreeOnPresentValues ==
  /\ PreviewOk /\ Returned /\ AllDataRowsPreviewed
  /\ ColF \in FeaturesWith({"mean", "median", "mode"})
  /\ Len(PresentValues(NormalizedRows, ColF)) = 2
  /\ replacementValues(config, preview, ColF).def
  /\ SameReplacement(NormalizedRows, ColF)

\* what the code does instead: the preview computes over the raw cells, so a
\* placeholder counts as a value of the column; here the preview shows a
\* replacement that differs from the one finalize applies
C29_PlaceholderCounted ==
  /\ PreviewOk /\ Returned /\ AllDataRowsPreviewed
  /\ ColG \in FeaturesWith({"mean", "median", "mode"})
  /\ replacementValues(config, preview, ColG).def
  /\ Replacement(NormalizedRows, ColG, Effective(config, ColG)).def
  /\ ~SameReplacement(NormalizedRows, ColG)

\* the step is a call of handleConfirmUpload: finalize() has just returned
ConfirmStep == result'.called /\ result' # result

\* the ingestion session after reset()
SessionReset ==
  /\ rawText = EmptyText
  /\ config = defaultIngestionConfig
  /\ preview = None
  /\ error = None

\* what one step of the component may do to the store and to the session;
\* settled tells for which confirms the session is required to keep its
\* config (a failed confirm) or to be reset (a successful one)
StoreStepWhen(settled) ==
  /\ storeDataset' # storeDataset =>
       ConfirmStep /\ result'.ret.dataset.def /\ ~result'.ret.error.def
  /\ (ConfirmStep /\ (result'.ret.error.def \/ ~result'.ret.dataset.def)) =>
       /\ storeDataset' = storeDataset
       /\ rawText' = rawText
       /\ settled => config' = config
  /\ (ConfirmStep /\ result'.ret.dataset.def /\ ~result'.ret.error.def) =>
       /\ storeDataset' = result'.ret.dataset
       /\ rawText' = EmptyText
       /\ settled => SessionReset'
  /\ (previewModalOpen /\ ~previewModalOpen' /\ ~ConfirmStep) =>
       storeDataset' = storeDataset

\* C30: the application store's dataset changes only on a successful
\* confirmation: a confirm whose finalize returns an error, and a cancel,
\* leave the previously stored dataset unchanged (a failed confirm also keeps
\* the session's text), while a successful confirm replaces the stored
\* dataset with the new one and empties the session's text; when no effect
\* of the hook is pending at the confirm, a failed confirm keeps the config
\* and a successful one resets the whole session.
C30_StoreChangesOnConfirmOnly == [][StoreStepWhen(pending = {})]_vars

\* C30 as stated: every failed confirm keeps the config and every
\* successful confirm resets the ingestion session, whether or not an effect
\* of the hook is still pending
C30_ConfirmAlwaysResets == [][StoreStepWhen(TRUE)]_vars

\* a confirm that failed on a loaded text and a changed config while a
\* dataset of an earlier confirm is in the store
C30_Witness ==
  /\ result.called
  /\ result.ret.error.def
  /\ tabError = result.ret.error
  /\ storeDataset # None
  /\ previewModalOpen
  /\ rawText # EmptyText
  /\ config # defaultIngestionConfig

\* a confirm that succeeded: its dataset is in the store, the modal is
\* closed and the session is reset
C30_WitnessStored ==
  /\ result.called
  /\ result.ret.dataset.def
  /\ storeDataset = result.ret.dataset
  /\ ~previewModalOpen
  /\ SessionReset

====
